---------------------------- MODULE Spec2Model ----------------------------
(***************************************************************************)
(* Model of the PDF service: the PII detector (pii_detector.py), the       *)
(* redaction-area validator and the /redact and /detect-pii request        *)
(* handlers (app.py, pii_endpoint.py).                                     *)
(*                                                                         *)
(* A Python str is modelled as a sequence of one-character strings.        *)
(* Confidence scores and thresholds are hundredths (0.95 is 95).           *)
(***************************************************************************)
EXTENDS Integers, Sequences, FiniteSets, TLC

VARIABLES
    card_number,    \* luhn_check: the argument
    luhn_result,    \* luhn_check: "pending", then the outcome of the call
    area,           \* validate_redaction_area: the area argument
    page_count,     \* validate_redaction_area: the page_count argument
    valid,          \* validate_redaction_area: "pending", then the outcome
    score_category, \* calculate_confidence: the category argument
    score_text,     \* calculate_confidence: the text argument
    score,          \* calculate_confidence: -2 while pending, then the outcome
    text,           \* detect_in_text: the span text
    bbox,           \* detect_in_text: the span box <<x1, y1, x2, y2>>
    page_num,       \* detect_in_text: the page number
    categories,     \* detect_in_text: the requested categories
    confidence_threshold,   \* detect_in_text: the threshold
    findings,       \* detect_in_text: the list returned
    detect_state,   \* detect_in_text: "idle", "pending", "returned" or "repeated"
    findings_again, \* detect_in_text: the list a second call on the same arguments returns
    STORAGE_TYPE,   \* app.py: "local", "s3" or "r2"
    stored,         \* what storage holds under the requested file id
    endpoint,       \* the handler serving the request: "redact" or "detect-pii"
    request,        \* the request body
    pc,             \* the handler's position
    doc,            \* the fitz document: "None", "open" or "closed"
    closes,         \* the number of close() calls on the document
    idx,            \* redact_pdf: the number of items of request.areas gone through
    annots,         \* redact_pdf: per page, the redaction annotations added
    applied,        \* redact_pdf: the pages apply_redactions() has run on
    redactions_applied, \* redact_pdf: the counter
    temp_input,     \* TEMP_PATH holds the file downloaded from the bucket
    temp_output,    \* TEMP_PATH holds the file doc.save wrote
    bucket_output,  \* the bucket holds the uploaded output
    raised,         \* the exception on its way out of the handler, or "none"
    response,       \* "none", then "success" or the status code of the error
    fault,          \* a library or storage call of this request has failed
    pii_findings,   \* detect_pii: the list findings
    page_i,         \* the pages the handler's page loop has entered
    span_i,         \* detect_pii: the spans of the page gone through
    statistics,     \* detect_pii: the statistics returned
    stats_findings, \* calculate_statistics: the argument
    stats_result,   \* calculate_statistics: the dictionary returned
    stats_state,    \* calculate_statistics: "idle", "pending" or "returned"
    filename,       \* sanitize_filename: the argument
    sanitized,      \* sanitize_filename: "idle", "pending", then the outcome of the call
    pair,           \* two requests in progress: endpoint, outputName, pc and response of each
    TEMP_PATH,      \* two requests: per output name, the request whose document the file holds
    bucket,         \* two requests: the same for the files uploaded to the bucket
    pages_per_split,    \* split_pdf_by_pattern: the parsed pattern
    start_page,     \* split_pdf_by_pattern: the loop variable (0-based)
    max_size_bytes, \* split_pdf_by_size: the size limit
    current_doc,    \* split_pdf_by_size: the pages (0-based) current_doc holds
    current_pages,  \* split_pdf_by_size: the counter
    chunk_number,   \* the number in the name of the chunk file
    open_chunks,    \* chunk documents created by fitz.open() and not closed
    chunk_files,    \* per chunk number, the pages (0-based) of the file saved under it
    output_files    \* the list of files returned, as chunk numbers

luhnVars == <<card_number, luhn_result>>
validateVars == <<area, page_count, valid>>
scoreVars == <<score_category, score_text, score>>
detectVars ==
    <<text, bbox, page_num, categories, confidence_threshold, findings, detect_state,
      findings_again>>
statsVars == <<stats_findings, stats_result, stats_state>>
sanitizeVars == <<filename, sanitized>>
pairVars == <<pair, TEMP_PATH, bucket>>
splitVars ==
    <<pages_per_split, start_page, max_size_bytes, current_doc, current_pages,
      chunk_number, open_chunks, chunk_files, output_files>>
restVars == <<sanitizeVars, pairVars, splitVars>>
functionVars == <<luhnVars, validateVars, scoreVars, detectVars, statsVars, restVars>>
requestVars ==
    <<STORAGE_TYPE, stored, endpoint, request, pc, doc, closes, idx, annots, applied,
      redactions_applied, temp_input, temp_output, bucket_output, raised, response,
      fault, pii_findings, page_i, span_i, statistics>>
vars == <<luhnVars, validateVars, scoreVars, detectVars, statsVars, requestVars, restVars>>

-----------------------------------------------------------------------------
(* Characters                                                              *)

DigitSeq == <<"0", "1", "2", "3", "4", "5", "6", "7", "8", "9">>
AsciiDigit == {DigitSeq[i] : i \in 1..10}

\* "sup2" stands for the one character U+00B2 (superscript two): str.isdigit()
\* is True for it and int() raises ValueError on it.
SuperscriptDigit == {"sup2"}

\* str.isdigit() of one character
IsDigit(c) == c \in AsciiDigit \cup SuperscriptDigit

\* int(d) of one character; -1 stands for ValueError
IntOf(c) == IF c \in AsciiDigit THEN (CHOOSE i \in 1..10 : DigitSeq[i] = c) - 1 ELSE -1

-----------------------------------------------------------------------------
(* PIIDetector.luhn_check                                                  *)

\* digits = [int(d) for d in card_number if d.isdigit()]
LuhnDigits(card) ==
    LET kept == SelectSeq(card, IsDigit)
    IN  [i \in 1..Len(kept) |-> IntOf(kept[i])]

\* LuhnTerm doubling the digits at even instead of odd positions
LuhnTermEven(i, digit) ==
    IF i % 2 = 0
    THEN IF digit * 2 > 9 THEN digit * 2 - 9 ELSE digit * 2
    ELSE digit

\* the loop body: digit at index i of reversed(digits)
LuhnTerm(i, digit) ==
    IF i % 2 = 1
    THEN IF digit * 2 > 9 THEN digit * 2 - 9 ELSE digit * 2
    ELSE digit

RECURSIVE LuhnChecksum(_, _)
\* checksum over reversed(digits), from index i (0-based) on
LuhnChecksum(digits, i) ==
    IF i >= Len(digits) THEN 0
    ELSE LuhnTerm(i, digits[Len(digits) - i]) + LuhnChecksum(digits, i + 1)

\* the body of the try block: "True", "False" or "raise"
LuhnTry(card) ==
    LET digits == LuhnDigits(card)
    IN  IF \E i \in 1..Len(digits) : digits[i] = -1 THEN "raise"
        ELSE IF Len(digits) < 13 \/ Len(digits) > 19 THEN "False"
        ELSE IF LuhnChecksum(digits, 0) % 10 = 0 THEN "True" ELSE "False"

\* luhn_check without its except clause
luhn_check_propagates(card) == LuhnTry(card)

\* luhn_check: the bare except turns every exception into False
luhn_check(card) ==
    LET r == LuhnTry(card)
    IN  IF r = "raise" THEN "False" ELSE r

-----------------------------------------------------------------------------
(* Inputs of luhn_check                                                    *)

MaxCardDigits == 21

\* 4532015112830366, the valid number of the documentation
BaseCard == <<"4", "5", "3", "2", "0", "1", "5", "1", "1", "2", "8", "3", "0", "3", "6", "6">>

\* the first n digits of BaseCard repeated
CardPrefix(n) == [i \in 1..n |-> BaseCard[((i - 1) % Len(BaseCard)) + 1]]

\* s with the character at position p replaced by d
Substitute(s, p, d) == [i \in 1..Len(s) |-> IF i = p THEN d ELSE s[i]]

RECURSIVE Grouped(_, _)
\* s with sep after every group of four characters
Grouped(s, sep) ==
    IF Len(s) <= 4 THEN s
    ELSE SubSeq(s, 1, 4) \o <<sep>> \o Grouped(SubSeq(s, 5, Len(s)), sep)

CardStyles == {"plain", "dash", "space", "alpha", "sup"}

Styled(s, style) ==
    CASE style = "plain" -> s
      [] style = "dash"  -> Grouped(s, "-")
      [] style = "space" -> Grouped(s, " ")
      [] style = "alpha" -> <<"x">> \o s \o <<"y", "z">>
      [] style = "sup"   -> s \o <<"sup2">>

CardInputs ==
    {Styled(Substitute(CardPrefix(n), p, d), style) :
        n \in 0..MaxCardDigits, p \in 1..MaxCardDigits, d \in AsciiDigit, style \in CardStyles}

-----------------------------------------------------------------------------
(* validate_redaction_area                                                 *)

\* A value of an area dictionary: a JSON integer (t = "int"), a JSON number
\* with a fraction part of zero (t = "float", v.0), a JSON integer beyond the
\* range of a float (t = "huge", such as a literal of 400 digits), null, a
\* string that is no number, or no value at all (the key is absent).
Absent == [t |-> "absent", v |-> 0]
Null == [t |-> "null", v |-> 0]
Str == [t |-> "str", v |-> 0]
Int_(n) == [t |-> "int", v |-> n]
Float_(n) == [t |-> "float", v |-> n]
Huge == [t |-> "huge", v |-> 2147483647]

\* area.get(key, default)
Get(a, key, default) == IF a[key].t = "absent" THEN Int_(default) ELSE a[key]

\* float(value): the number, or the exception float() raises
FloatOf(val) ==
    CASE val.t \in {"int", "float"} -> [err |-> "none", v |-> val.v]
      [] val.t = "huge" -> [err |-> "OverflowError", v |-> 0]
      [] val.t = "null" -> [err |-> "TypeError", v |-> 0]
      [] val.t = "str"  -> [err |-> "ValueError", v |-> 0]

\* page < 1, page > page_count on the value as given: any number compares
\* with an int, comparing None or a str with an int raises TypeError
PageOf(val) ==
    IF val.t \in {"int", "float", "huge"} THEN [err |-> "none", v |-> val.v]
    ELSE [err |-> "TypeError", v |-> 0]

\* the body of the try block: "True", "False" or the exception raised
ValidateTry(a, n) ==
    LET page   == PageOf(Get(a, "page", 1))
        x      == FloatOf(Get(a, "x", 0))
        y      == FloatOf(Get(a, "y", 0))
        width  == FloatOf(Get(a, "width", 0))
        height == FloatOf(Get(a, "height", 0))
    IN  IF x.err # "none" THEN x.err
        ELSE IF y.err # "none" THEN y.err
        ELSE IF width.err # "none" THEN width.err
        ELSE IF height.err # "none" THEN height.err
        ELSE IF page.err # "none" THEN page.err
        ELSE IF page.v < 1 \/ page.v > n THEN "False"
        ELSE IF x.v < 0 \/ y.v < 0 \/ width.v <= 0 \/ height.v <= 0 THEN "False"
        ELSE IF width.v > 10000 \/ height.v > 10000 THEN "False"
        ELSE "True"

\* validate_redaction_area: except (ValueError, TypeError) returns False
validate_redaction_area(a, n) ==
    LET r == ValidateTry(a, n)
    IN  IF r \in {"ValueError", "TypeError"} THEN "False" ELSE r

-----------------------------------------------------------------------------
(* Inputs of validate_redaction_area                                       *)

MaxPages == 3

PageValues == {Absent, Null, Str, Float_(1), Huge} \cup {Int_(n) : n \in 0..(MaxPages + 1)}
CoordValues == {Absent, Null, Str, Huge, Int_(-1), Int_(0), Int_(10)}
SizeValues == {Absent, Str, Int_(-5), Int_(0), Int_(50), Int_(10000), Int_(10001), Int_(20000)}

AreaInputs ==
    [page : PageValues, x : CoordValues, y : {Absent, Int_(-1), Int_(0), Int_(10)},
     width : SizeValues, height : SizeValues]

NoArea == [page |-> Absent, x |-> Absent, y |-> Absent, width |-> Absent, height |-> Absent]

-----------------------------------------------------------------------------
(* Text and regular expressions                                            *)

LowerSeq == <<"a", "b", "c", "d", "e", "f", "g", "h", "i", "j", "k", "l", "m",
              "n", "o", "p", "q", "r", "s", "t", "u", "v", "w", "x", "y", "z">>
UpperSeq == <<"A", "B", "C", "D", "E", "F", "G", "H", "I", "J", "K", "L", "M",
              "N", "O", "P", "Q", "R", "S", "T", "U", "V", "W", "X", "Y", "Z">>
Lower == {LowerSeq[i] : i \in 1..26}
Upper == {UpperSeq[i] : i \in 1..26}
Letter == Lower \cup Upper

\* the characters \s matches and str.strip() / str.split() take for whitespace
Space == {" ", "\t", "\n"}

\* the characters \w matches
WordChar == Letter \cup AsciiDigit \cup SuperscriptDigit \cup {"_"}

\* str.lower() and str.upper() of one character
ToLower(c) == IF c \in Upper THEN LowerSeq[CHOOSE i \in 1..26 : UpperSeq[i] = c] ELSE c
ToUpper(c) == IF c \in Lower THEN UpperSeq[CHOOSE i \in 1..26 : LowerSeq[i] = c] ELSE c

\* text.lower()
LowerText(t) == [i \in 1..Len(t) |-> ToLower(t[i])]

\* Regular expressions: a character class, the word boundary \b, a
\* concatenation, an alternation (first alternative first) and a greedy
\* repetition {min,max} (max = -1: no upper limit).
Cls(S) == [op |-> "cls", set |-> S]
Ch(c) == Cls({c})
WordB == [op |-> "b"]
Cat(parts) == [op |-> "cat", parts |-> parts]
Alt(parts) == [op |-> "alt", parts |-> parts]
Rep(r, min, max) == [op |-> "rep", r |-> r, min |-> min, max |-> max]
Opt(r) == Rep(r, 0, 1)
Lit(s) == Cat([i \in 1..Len(s) |-> Ch(s[i])])

\* a class against one character under re.IGNORECASE
ClsMatch(S, c) == c \in S \/ ToLower(c) \in S \/ ToUpper(c) \in S

\* \b at offset i (0-based, between t[i] and t[i+1])
AtWordBoundary(t, i) ==
    (i > 0 /\ t[i] \in WordChar) # (i < Len(t) /\ t[i + 1] \in WordChar)

RECURSIVE Ends(_, _, _), EndsCat(_, _, _, _), EndsCatEach(_, _, _, _),
          EndsAlt(_, _, _, _), EndsRep(_, _, _, _, _), EndsRepEach(_, _, _, _, _, _)

\* The offsets at which a match of r starting at offset i can end, in the
\* order a backtracking matcher tries them.
Ends(r, t, i) ==
    CASE r.op = "cls" -> IF i < Len(t) /\ ClsMatch(r.set, t[i + 1]) THEN <<i + 1>> ELSE <<>>
      [] r.op = "b"   -> IF AtWordBoundary(t, i) THEN <<i>> ELSE <<>>
      [] r.op = "cat" -> EndsCat(r.parts, 1, t, i)
      [] r.op = "alt" -> EndsAlt(r.parts, 1, t, i)
      [] r.op = "rep" -> EndsRep(r.r, r.min, r.max, t, i)

EndsCat(parts, k, t, i) ==
    IF k > Len(parts) THEN <<i>>
    ELSE EndsCatEach(parts, k, t, Ends(parts[k], t, i))

EndsCatEach(parts, k, t, es) ==
    IF es = <<>> THEN <<>>
    ELSE EndsCat(parts, k + 1, t, Head(es)) \o EndsCatEach(parts, k, t, Tail(es))

EndsAlt(parts, k, t, i) ==
    IF k > Len(parts) THEN <<>>
    ELSE Ends(parts[k], t, i) \o EndsAlt(parts, k + 1, t, i)

EndsRep(r, min, max, t, i) ==
    (IF max = 0 THEN <<>> ELSE EndsRepEach(r, min, max, t, i, Ends(r, t, i)))
    \o (IF min = 0 THEN <<i>> ELSE <<>>)

EndsRepEach(r, min, max, t, i, es) ==
    IF es = <<>> THEN <<>>
    ELSE (IF Head(es) > i
          THEN EndsRep(r, IF min > 0 THEN min - 1 ELSE 0,
                       IF max = -1 THEN -1 ELSE max - 1, t, Head(es))
          ELSE <<>>)
         \o EndsRepEach(r, min, max, t, i, Tail(es))

RECURSIVE FindIter(_, _, _)
\* re.finditer(pattern, text, re.IGNORECASE) from offset pos on: the matches
\* [start, end) from left to right, none overlapping another
FindIter(p, t, pos) ==
    IF pos > Len(t) THEN <<>>
    ELSE LET es == Ends(p, t, pos)
         IN  IF es = <<>> THEN FindIter(p, t, pos + 1)
             ELSE <<[start |-> pos, end |-> Head(es)]>>
                  \o FindIter(p, t, IF Head(es) > pos THEN Head(es) ELSE pos + 1)

\* match.group()
Group(t, m) == SubSeq(t, m.start + 1, m.end)

\* "needle in t"
Contains(t, needle) ==
    \E i \in 1..(Len(t) - Len(needle) + 1) : SubSeq(t, i, i + Len(needle) - 1) = needle

-----------------------------------------------------------------------------
(* PIIDetector.PATTERNS and NAME_INDICATORS                                *)

Digit == Cls(AsciiDigit)
Sep(S) == Opt(Cls(S))

PatternSSN ==
    Cat(<<WordB, Rep(Digit, 3, 3), Ch("-"), Rep(Digit, 2, 2), Ch("-"), Rep(Digit, 4, 4), WordB>>)

PatternEMAIL ==
    Cat(<<WordB,
          Rep(Cls(Letter \cup AsciiDigit \cup {".", "_", "%", "+", "-"}), 1, -1),
          Ch("@"),
          Rep(Cls(Letter \cup AsciiDigit \cup {".", "-"}), 1, -1),
          Ch("."),
          Rep(Cls(Letter \cup {"|"}), 2, -1),
          WordB>>)

PatternPHONE ==
    Cat(<<WordB,
          Opt(Cat(<<Opt(Ch("+")), Ch("1"), Sep({"-", "."})>>)),
          Opt(Ch("(")), Rep(Digit, 3, 3), Opt(Ch(")")), Sep({"-", "."}),
          Rep(Digit, 3, 3), Sep({"-", "."}),
          Rep(Digit, 4, 4),
          WordB>>)

PatternCREDIT_CARD ==
    Cat(<<WordB,
          Rep(Cat(<<Rep(Digit, 4, 4), Sep({"-"} \cup Space)>>), 3, 3),
          Rep(Digit, 4, 4),
          WordB>>)

PatternDATE_OF_BIRTH ==
    Cat(<<WordB,
          Alt(<<Cat(<<Ch("0"), Cls({"1", "2", "3", "4", "5", "6", "7", "8", "9"})>>),
                Cat(<<Ch("1"), Cls({"0", "1", "2"})>>)>>),
          Cls({"/", "-"}),
          Alt(<<Cat(<<Ch("0"), Cls({"1", "2", "3", "4", "5", "6", "7", "8", "9"})>>),
                Cat(<<Cls({"1", "2"}), Digit>>),
                Cat(<<Ch("3"), Cls({"0", "1"})>>)>>),
          Cls({"/", "-"}),
          Alt(<<Lit(<<"1", "9">>), Lit(<<"2", "0">>)>>),
          Rep(Digit, 2, 2),
          WordB>>)

PatternZIP_CODE ==
    Cat(<<WordB, Rep(Digit, 5, 5), Opt(Cat(<<Ch("-"), Rep(Digit, 4, 4)>>)), WordB>>)

StreetSuffixes ==
    <<Lit(<<"S", "t", "r", "e", "e", "t">>), Lit(<<"S", "t">>),
      Lit(<<"A", "v", "e", "n", "u", "e">>), Lit(<<"A", "v", "e">>),
      Lit(<<"R", "o", "a", "d">>), Lit(<<"R", "d">>),
      Lit(<<"B", "o", "u", "l", "e", "v", "a", "r", "d">>), Lit(<<"B", "l", "v", "d">>),
      Lit(<<"L", "a", "n", "e">>), Lit(<<"L", "n">>),
      Lit(<<"D", "r", "i", "v", "e">>), Lit(<<"D", "r">>),
      Lit(<<"C", "o", "u", "r", "t">>), Lit(<<"C", "t">>),
      Lit(<<"C", "i", "r", "c", "l", "e">>), Lit(<<"C", "i", "r">>)>>

PatternADDRESS ==
    Cat(<<WordB, Rep(Digit, 1, -1), Rep(Cls(Space), 1, -1),
          Rep(Cls(Letter \cup Space), 1, -1), Alt(StreetSuffixes), WordB>>)

PatternCategories ==
    {"SSN", "EMAIL", "PHONE", "CREDIT_CARD", "DATE_OF_BIRTH", "ZIP_CODE", "ADDRESS"}

PATTERNS(category) ==
    CASE category = "SSN"           -> PatternSSN
      [] category = "EMAIL"         -> PatternEMAIL
      [] category = "PHONE"         -> PatternPHONE
      [] category = "CREDIT_CARD"   -> PatternCREDIT_CARD
      [] category = "DATE_OF_BIRTH" -> PatternDATE_OF_BIRTH
      [] category = "ZIP_CODE"      -> PatternZIP_CODE
      [] category = "ADDRESS"       -> PatternADDRESS

NAME_INDICATORS ==
    <<(<<"M", "r", ".">>), (<<"M", "r", "s", ".">>), (<<"M", "s", ".">>),
      (<<"D", "r", ".">>), (<<"P", "r", "o", "f", ".">>), (<<"M", "i", "s", "s">>)>>

-----------------------------------------------------------------------------
(* PIIDetector.calculate_confidence                                        *)

\* stands for an exception leaving calculate_confidence
Raised == -1

FreeMailDomains ==
    {<<"g", "m", "a", "i", "l", ".", "c", "o", "m">>,
     <<"y", "a", "h", "o", "o", ".", "c", "o", "m">>,
     <<"o", "u", "t", "l", "o", "o", "k", ".", "c", "o", "m">>,
     <<"h", "o", "t", "m", "a", "i", "l", ".", "c", "o", "m">>}

\* re.sub(r'[-\s]', '', text)
StripSeparators(t) == SelectSeq(t, LAMBDA c : c \notin ({"-"} \cup Space))

\* the CREDIT_CARD branch without the Luhn check
CreditCardConfidenceUnchecked(t) == 95

\* the CREDIT_CARD branch
CreditCardConfidence(t) ==
    LET r == luhn_check(StripSeparators(t))
    IN  IF r = "raise" THEN Raised ELSE IF r = "True" THEN 95 ELSE 70

\* calculate_confidence with the NAME score given to the unknown categories
calculate_confidence_fallthrough(category, t) ==
    IF category = "SSN" THEN 95
    ELSE IF category = "EMAIL"
         THEN IF \E domain \in FreeMailDomains : Contains(LowerText(t), domain) THEN 95 ELSE 90
    ELSE IF category = "CREDIT_CARD" THEN CreditCardConfidence(t)
    ELSE IF category = "PHONE" THEN 88
    ELSE IF category = "DATE_OF_BIRTH" THEN 85
    ELSE IF category = "ADDRESS" THEN 80
    ELSE IF category = "ZIP_CODE" THEN 82
    ELSE 75

calculate_confidence(category, t) ==
    IF category = "SSN" THEN 95
    ELSE IF category = "EMAIL"
         THEN IF \E domain \in FreeMailDomains : Contains(LowerText(t), domain) THEN 95 ELSE 90
    ELSE IF category = "CREDIT_CARD" THEN CreditCardConfidence(t)
    ELSE IF category = "PHONE" THEN 88
    ELSE IF category = "DATE_OF_BIRTH" THEN 85
    ELSE IF category = "ADDRESS" THEN 80
    ELSE IF category = "ZIP_CODE" THEN 82
    ELSE IF category = "NAME" THEN 75
    ELSE 80

-----------------------------------------------------------------------------
(* PIIDetector.detect_in_text                                              *)

\* A coordinate of a finding's box is the fraction n / d.
Rat(n, d) == [n |-> n, d |-> d]

\* category.replace("_", " ").title()
DisplayName(category) ==
    CASE category = "SSN"           -> "Ssn"
      [] category = "EMAIL"         -> "Email"
      [] category = "PHONE"         -> "Phone"
      [] category = "CREDIT_CARD"   -> "Credit Card"
      [] category = "DATE_OF_BIRTH" -> "Date Of Birth"
      [] category = "ZIP_CODE"      -> "Zip Code"
      [] category = "ADDRESS"       -> "Address"

\* MatchBbox measuring the match from 0 instead of from x1
MatchBboxFromOrigin(t, box, m) ==
    IF Len(t) > 0
    THEN LET width == box[3] - box[1]
         IN  <<Rat(width * m.start, Len(t)), Rat(box[2], 1),
               Rat(width * m.end, Len(t)), Rat(box[4], 1)>>
    ELSE <<Rat(box[1], 1), Rat(box[2], 1), Rat(box[3], 1), Rat(box[4], 1)>>

\* the box of a match: x1 + width * (start / len(text)), y1,
\* x1 + width * (end / len(text)), y2; the span's box for an empty text
MatchBbox(t, box, m) ==
    IF Len(t) > 0
    THEN LET width == box[3] - box[1]
         IN  <<Rat(box[1] * Len(t) + width * m.start, Len(t)), Rat(box[2], 1),
               Rat(box[1] * Len(t) + width * m.end, Len(t)), Rat(box[4], 1)>>
    ELSE <<Rat(box[1], 1), Rat(box[2], 1), Rat(box[3], 1), Rat(box[4], 1)>>

\* PatternFindings comparing with the default threshold 0.7 instead of the
\* caller's
PatternFindingsDefaultThreshold(t, box, page, category, threshold) ==
    LET matches == FindIter(PATTERNS(category), t, 0)
        kept == SelectSeq(matches,
                    LAMBDA m : calculate_confidence(category, Group(t, m)) >= 70)
    IN  [i \in 1..Len(kept) |->
            [category   |-> category,
             name       |-> DisplayName(category),
             text       |-> Group(t, kept[i]),
             confidence |-> calculate_confidence(category, Group(t, kept[i])),
             page       |-> page,
             bbox       |-> MatchBbox(t, box, kept[i])]]

\* the findings of one pattern category, before their ids are drawn
PatternFindings(t, box, page, category, threshold) ==
    LET matches == FindIter(PATTERNS(category), t, 0)
        kept == SelectSeq(matches,
                    LAMBDA m : calculate_confidence(category, Group(t, m)) >= threshold)
    IN  [i \in 1..Len(kept) |->
            [category   |-> category,
             name       |-> DisplayName(category),
             text       |-> Group(t, kept[i]),
             confidence |-> calculate_confidence(category, Group(t, kept[i])),
             page       |-> page,
             bbox       |-> MatchBbox(t, box, kept[i])]]

RECURSIVE AllPatternFindingsBreak(_, _, _, _, _, _)
\* AllPatternFindings leaving the loop at a category outside PATTERNS
AllPatternFindingsBreak(t, box, page, cats, threshold, k) ==
    IF k > Len(cats) THEN <<>>
    ELSE IF cats[k] \notin PatternCategories THEN <<>>
    ELSE PatternFindings(t, box, page, cats[k], threshold)
         \o AllPatternFindingsBreak(t, box, page, cats, threshold, k + 1)

RECURSIVE AllPatternFindings(_, _, _, _, _, _)
\* the loop over categories, from the k-th on
AllPatternFindings(t, box, page, cats, threshold, k) ==
    IF k > Len(cats) THEN <<>>
    ELSE (IF cats[k] \in PatternCategories
          THEN PatternFindings(t, box, page, cats[k], threshold)
          ELSE <<>>)
         \o AllPatternFindings(t, box, page, cats, threshold, k + 1)

\* the least i >= from with needle at t[i..], or 0
IndexOf(t, needle, from) ==
    LET hits == {i \in from..(Len(t) - Len(needle) + 1) :
                    SubSeq(t, i, i + Len(needle) - 1) = needle}
    IN  IF hits = {} THEN 0 ELSE CHOOSE i \in hits : \A j \in hits : i <= j

RECURSIVE Split(_, _)
\* t.split(sep)
Split(t, sep) ==
    LET i == IndexOf(t, sep, 1)
    IN  IF i = 0 THEN <<t>>
        ELSE <<SubSeq(t, 1, i - 1)>> \o Split(SubSeq(t, i + Len(sep), Len(t)), sep)

RECURSIVE Strip(_)
\* s.strip()
Strip(s) ==
    IF s = <<>> THEN s
    ELSE IF Head(s) \in Space THEN Strip(Tail(s))
    ELSE IF s[Len(s)] \in Space THEN Strip(SubSeq(s, 1, Len(s) - 1))
    ELSE s

RECURSIVE Words(_)
\* s.split(): the maximal runs of characters that are not whitespace
Words(s) ==
    IF s = <<>> THEN <<>>
    ELSE IF Head(s) \in Space THEN Words(Tail(s))
    ELSE LET stops == {i \in 1..Len(s) : s[i] \in Space}
             n == IF stops = {} THEN Len(s)
                  ELSE (CHOOSE i \in stops : \A j \in stops : i <= j) - 1
         IN  <<SubSeq(s, 1, n)>> \o Words(SubSeq(s, n + 1, Len(s)))

RECURSIVE Join(_)
\* " ".join(words)
Join(words) ==
    IF words = <<>> THEN <<>>
    ELSE IF Len(words) = 1 THEN words[1]
    ELSE words[1] \o <<" ">> \o Join(Tail(words))

\* s[:n]
Take(s, n) == SubSeq(s, 1, IF Len(s) < n THEN Len(s) ELSE n)

RECURSIVE NameCandidates(_, _, _, _, _, _)
\* a NAME finding for every part of the split from the j-th on
NameCandidates(parts, j, box, page, indicator, threshold) ==
    IF j > Len(parts) THEN <<>>
    ELSE LET words_after == Take(Words(Strip(parts[j])), 3)
             name_text == Join(words_after)
         IN  (IF Len(words_after) >= 2
                 /\ (\A i \in 1..Len(words_after) : words_after[i][1] \in Upper)
                 /\ 75 >= threshold
              THEN <<[category   |-> "NAME",
                      name       |-> "Name",
                      text       |-> indicator \o <<" ">> \o name_text,
                      confidence |-> 75,
                      page       |-> page,
                      bbox       |-> <<Rat(box[1], 1), Rat(box[2], 1),
                                       Rat(box[3], 1), Rat(box[4], 1)>>]>>
              ELSE <<>>)
             \o NameCandidates(parts, j + 1, box, page, indicator, threshold)

\* NameFinding looking after every occurrence of the indicator
NameFindingEveryOccurrence(t, box, page, indicator, threshold) ==
    IF ~Contains(t, indicator) THEN <<>>
    ELSE NameCandidates(Split(t, indicator), 2, box, page, indicator, threshold)

\* the NAME finding of one indicator (none: the empty sequence)
NameFinding(t, box, page, indicator, threshold) ==
    IF ~Contains(t, indicator) THEN <<>>
    ELSE LET parts == Split(t, indicator)
         IN  IF ~(Len(parts) > 1) THEN <<>>
             ELSE LET words_after == Take(Words(Strip(parts[2])), 3)
                      name_text == Join(words_after)
                      confidence == calculate_confidence("NAME", name_text)
                  IN  IF Len(words_after) >= 2
                         /\ (\A i \in 1..Len(words_after) : words_after[i][1] \in Upper)
                         /\ confidence >= threshold
                      THEN <<[category   |-> "NAME",
                              name       |-> "Name",
                              text       |-> indicator \o <<" ">> \o name_text,
                              confidence |-> confidence,
                              page       |-> page,
                              bbox       |-> <<Rat(box[1], 1), Rat(box[2], 1),
                                               Rat(box[3], 1), Rat(box[4], 1)>>]>>
                      ELSE <<>>

RECURSIVE NameFindings(_, _, _, _, _)
\* the loop over NAME_INDICATORS, from the k-th on
NameFindings(t, box, page, threshold, k) ==
    IF k > Len(NAME_INDICATORS) THEN <<>>
    ELSE NameFinding(t, box, page, NAME_INDICATORS[k], threshold)
         \o NameFindings(t, box, page, threshold, k + 1)

\* detect_in_text: the findings in the order they are appended, before their ids
\* are drawn
FindingsOf(t, box, page, cats, threshold) ==
    AllPatternFindings(t, box, page, cats, threshold, 1)
    \o (IF \E k \in 1..Len(cats) : cats[k] = "NAME"
        THEN NameFindings(t, box, page, threshold, 1)
        ELSE <<>>)

\* the values uuid4().hex[:8] is drawn from
Uuid8 == {"0a1b2c3d", "9f5db689"}

\* AssignIds with the random part of the id written into the name as well
AssignIdsIntoName(fs, uuid) ==
    [i \in 1..Len(fs) |->
        [id         |-> [category |-> fs[i].category, page |-> fs[i].page, hex |-> uuid[i]],
         category   |-> fs[i].category,
         name       |-> <<fs[i].name, uuid[i]>>,
         text       |-> fs[i].text,
         confidence |-> fs[i].confidence,
         page       |-> fs[i].page,
         bbox       |-> fs[i].bbox]]

\* the findings with their ids: f"{category}_{page_num}_{uuid4().hex[:8]}", the
\* i-th finding taking uuid[i] for the random part
AssignIds(fs, uuid) ==
    [i \in 1..Len(fs) |->
        [id         |-> [category |-> fs[i].category, page |-> fs[i].page, hex |-> uuid[i]],
         category   |-> fs[i].category,
         name       |-> fs[i].name,
         text       |-> fs[i].text,
         confidence |-> fs[i].confidence,
         page       |-> fs[i].page,
         bbox       |-> fs[i].bbox]]

-----------------------------------------------------------------------------
(* Inputs of detect_in_text and calculate_confidence                       *)

\* ''
TextEmpty == <<>>
\* 'SSN: 123-45-6789 end'
TextSsn ==
    <<"S", "S", "N", ":", " ", "1", "2", "3", "-", "4", "5", "-", "6", "7", "8", "9", " ", "e",
      "n", "d">>
\* 'Dr. John Smith has SSN 123-45-6789'
TextDoctorSsn ==
    <<"D", "r", ".", " ", "J", "o", "h", "n", " ", "S", "m", "i", "t", "h", " ", "h", "a", "s",
      " ", "S", "S", "N", " ", "1", "2", "3", "-", "4", "5", "-", "6", "7", "8", "9">>
\* '4532015112830366'
TextCardValid == <<"4", "5", "3", "2", "0", "1", "5", "1", "1", "2", "8", "3", "0", "3", "6", "6">>
\* '4532 0151 1283 0367'
TextCardInvalid ==
    <<"4", "5", "3", "2", " ", "0", "1", "5", "1", " ", "1", "2", "8", "3", " ", "0", "3", "6",
      "7">>
\* 'card 4532-0151-1283-0366 ok'
TextCardDashed ==
    <<"c", "a", "r", "d", " ", "4", "5", "3", "2", "-", "0", "1", "5", "1", "-", "1", "2", "8",
      "3", "-", "0", "3", "6", "6", " ", "o", "k">>
\* '4532\t0151\t1283\t0366'
TextCardTabbed ==
    <<"4", "5", "3", "2", "\t", "0", "1", "5", "1", "\t", "1", "2", "8", "3", "\t", "0", "3",
      "6", "6">>
\* '4532015112830366 4532015112830367'
TextTwoCards ==
    <<"4", "5", "3", "2", "0", "1", "5", "1", "1", "2", "8", "3", "0", "3", "6", "6", " ", "4",
      "5", "3", "2", "0", "1", "5", "1", "1", "2", "8", "3", "0", "3", "6", "7">>
\* 'user@gmail.com'
TextGmail == <<"u", "s", "e", "r", "@", "g", "m", "a", "i", "l", ".", "c", "o", "m">>
\* 'user@unknown-domain.xyz'
TextOtherMail ==
    <<"u", "s", "e", "r", "@", "u", "n", "k", "n", "o", "w", "n", "-", "d", "o", "m", "a", "i",
      "n", ".", "x", "y", "z">>
\* 'bob@notgmail.com'
TextNotGmail == <<"b", "o", "b", "@", "n", "o", "t", "g", "m", "a", "i", "l", ".", "c", "o", "m">>
\* 'call 555-123-4567'
TextPhone == <<"c", "a", "l", "l", " ", "5", "5", "5", "-", "1", "2", "3", "-", "4", "5", "6", "7">>
\* 'born 01/15/1990'
TextBirth == <<"b", "o", "r", "n", " ", "0", "1", "/", "1", "5", "/", "1", "9", "9", "0">>
\* 'zip 90210-1234'
TextZip == <<"z", "i", "p", " ", "9", "0", "2", "1", "0", "-", "1", "2", "3", "4">>
\* '12 Main Street'
TextAddress == <<"1", "2", " ", "M", "a", "i", "n", " ", "S", "t", "r", "e", "e", "t">>
\* '12 main st 90210'
TextLowerAddress ==
    <<"1", "2", " ", "m", "a", "i", "n", " ", "s", "t", " ", "9", "0", "2", "1", "0">>
\* 'Mr. John Smith'
TextMister == <<"M", "r", ".", " ", "J", "o", "h", "n", " ", "S", "m", "i", "t", "h">>
\* 'Dr. Al Dr. Bo Cy'
TextTwoDoctors == <<"D", "r", ".", " ", "A", "l", " ", "D", "r", ".", " ", "B", "o", " ", "C", "y">>
\* 'Miss jane Doe'
TextMissLower == <<"M", "i", "s", "s", " ", "j", "a", "n", "e", " ", "D", "o", "e">>
\* 'Dr.John  Smith'
TextDoctorTight == <<"D", "r", ".", "J", "o", "h", "n", " ", " ", "S", "m", "i", "t", "h">>
\* 'Mrs. Ann Lee-Roy Mr. Bo'
TextMrsMr ==
    <<"M", "r", "s", ".", " ", "A", "n", "n", " ", "L", "e", "e", "-", "R", "o", "y", " ", "M",
      "r", ".", " ", "B", "o">>
\* 'Mr. Al Bo Mr. Cy Di'
TextTwoMisters ==
    <<"M", "r", ".", " ", "A", "l", " ", "B", "o", " ", "M", "r", ".", " ", "C", "y", " ", "D",
      "i">>
\* 'Prof. X'
TextProf == <<"P", "r", "o", "f", ".", " ", "X">>
\* '0123456789'
TextDigits == <<"0", "1", "2", "3", "4", "5", "6", "7", "8", "9">>

SpanTexts ==
    {TextEmpty,
     TextSsn,
     TextDoctorSsn,
     TextCardValid,
     TextCardInvalid,
     TextCardDashed,
     TextCardTabbed,
     TextTwoCards,
     TextGmail,
     TextOtherMail,
     TextNotGmail,
     TextPhone,
     TextBirth,
     TextZip,
     TextAddress,
     TextLowerAddress,
     TextMister,
     TextTwoDoctors,
     TextMissLower,
     TextDoctorTight,
     TextMrsMr,
     TextTwoMisters,
     TextProf,
     TextDigits}

CategoryLists ==
    {<<>>,
     <<"NAME">>,
     <<"SSN", "NAME">>,
     <<"CREDIT_CARD">>,
     <<"EMAIL", "PHONE">>,
     <<"ZIP_CODE", "ADDRESS", "DATE_OF_BIRTH">>,
     <<"PASSPORT", "SSN", "CREDIT_CARD", "NAME">>,
     <<"EMAIL", "ssn", "Name", "PHONE">>,
     <<"SSN", "EMAIL", "PHONE", "CREDIT_CARD", "DATE_OF_BIRTH", "ZIP_CODE", "ADDRESS", "NAME">>}

Thresholds == {0, 70, 71, 75, 76, 95, 96}

SpanBoxes == {<<0, 0, 100, 10>>, <<10, 20, 50, 30>>}

MaxPageNum == 2

\* the finding sequences given to calculate_statistics: of a finding the
\* function reads the category and the confidence
MaxFindings == 3
StatsConfidences == {69, 70, 89, 90, 95}
StatsInputs ==
    UNION {[1..n -> [category : {"SSN", "NAME"}, confidence : StatsConfidences]] :
              n \in 0..MaxFindings}

ScoreCategories == PatternCategories \cup {"NAME", "PASSPORT", "ssn", ""}

-----------------------------------------------------------------------------
(* Files, storage and documents (app.py)                                   *)

MAX_FILE_SIZE_MB == 50
MAX_REDACTIONS == 1000

\* the value None of an optional request field
None == <<"None">>

\* os.path.basename(filename): what follows the last "/"
Basename(f) ==
    LET slashes == {i \in 1..Len(f) : f[i] = "/"}
    IN  IF slashes = {} THEN f
        ELSE SubSeq(f, (CHOOSE i \in slashes : \A j \in slashes : j <= i) + 1, Len(f))

\* re.match(r'^[\w\-\.]+$', filename): $ matches at the end of the string and
\* before a newline that ends it
SafeNameMatch(f) ==
    LET ends == Ends(Rep(Cls(WordChar \cup {"-", "."}), 1, -1), f, 0)
    IN  \E k \in 1..Len(ends) :
            ends[k] = Len(f) \/ (ends[k] = Len(f) - 1 /\ f[Len(f)] = "\n")

\* sanitize_filename: the name returned, or the exception raised
sanitize_filename(f) ==
    IF f = None THEN [err |-> "TypeError", name |-> <<>>]
    ELSE IF ~SafeNameMatch(Basename(f)) THEN [err |-> "ValueError", name |-> <<>>]
    ELSE [err |-> "none", name |-> Basename(f)]

\* the response to an exception that leaves a handler: an HTTPException is
\* raised again, any other exception becomes 500
ResponseTo(exc) ==
    CASE exc = "HTTP400" -> "400"
      [] exc = "HTTP404" -> "404"
      [] exc = "HTTP413" -> "413"
      [] exc = "HTTP500" -> "500"
      [] exc = "Exception" -> "500"

-----------------------------------------------------------------------------
(* PIIDetector.calculate_statistics                                        *)

\* calculate_statistics with the medium band starting above 0.7
calculate_statistics_medium_above(fs) ==
    LET cats == {fs[i].category : i \in 1..Len(fs)}
    IN  [total |-> Len(fs),
         by_category |->
             [c \in cats |-> Cardinality({i \in 1..Len(fs) : fs[i].category = c})],
         by_confidence |->
             [high   |-> Cardinality({i \in 1..Len(fs) : fs[i].confidence >= 90}),
              medium |-> Cardinality({i \in 1..Len(fs) :
                                        70 < fs[i].confidence /\ fs[i].confidence < 90}),
              low    |-> Cardinality({i \in 1..Len(fs) : fs[i].confidence < 70})]]

calculate_statistics(fs) ==
    LET cats == {fs[i].category : i \in 1..Len(fs)}
    IN  [total |-> Len(fs),
         by_category |->
             [c \in cats |-> Cardinality({i \in 1..Len(fs) : fs[i].category = c})],
         by_confidence |->
             [high   |-> Cardinality({i \in 1..Len(fs) : fs[i].confidence >= 90}),
              medium |-> Cardinality({i \in 1..Len(fs) :
                                        70 <= fs[i].confidence /\ fs[i].confidence < 90}),
              low    |-> Cardinality({i \in 1..Len(fs) : fs[i].confidence < 70})]]

NoStatistics ==
    [total |-> 0, by_category |-> <<>>,
     by_confidence |-> [high |-> 0, medium |-> 0, low |-> 0]]

-----------------------------------------------------------------------------
(* Inputs of the request handlers                                          *)

MaxDocPages == 2
MaxAreas == 2

\* the pages text extraction delivers: the page rectangle and the spans
PagePool ==
    <<[rect |-> <<612, 792>>,
       spans |-> <<[text |-> TextSsn, bbox |-> <<0, 0, 100, 10>>],
                   [text |-> TextProf, bbox |-> <<0, 20, 100, 30>>],
                   [text |-> TextTwoCards, bbox |-> <<0, 40, 100, 50>>]>>],
      [rect |-> <<612, 792>>,
       spans |-> <<[text |-> TextCardInvalid, bbox |-> <<10, 20, 50, 30>>],
                   [text |-> TextMister, bbox |-> <<10, 40, 50, 50>>]>>],
      [rect |-> <<792, 612>>,
       spans |-> <<[text |-> TextMister, bbox |-> <<0, 0, 100, 10>>]>>]>>

DocPages(n) == [i \in 1..n |-> PagePool[((i - 1) % Len(PagePool)) + 1]]

\* what is stored under the requested file id
StoredFiles ==
    {[exists |-> FALSE, size_mb |-> 0, corrupt |-> FALSE, pages |-> <<>>],
     [exists |-> TRUE, size_mb |-> 51, corrupt |-> FALSE, pages |-> DocPages(1)],
     [exists |-> TRUE, size_mb |-> 1, corrupt |-> TRUE, pages |-> <<>>]}
    \cup {[exists |-> TRUE, size_mb |-> 50, corrupt |-> FALSE, pages |-> DocPages(n)] :
             n \in 1..MaxDocPages}

NameGood == <<"a", ".", "p", "d", "f">>
NameTraversal == <<".", ".", "/", "b", ".", "p", "d", "f">>
NameBad == <<"a", " ", "b", ".", "p", "d", "f">>
NameDefault == <<"r", "e", "d", "a", "c", "t", "e", "d", ".", "p", "d", "f">>

AreaOn(p) ==
    [page |-> Int_(p), x |-> Int_(10), y |-> Int_(10), width |-> Int_(50), height |-> Int_(50)]
AreaBeyondPage ==
    [page |-> Int_(1), x |-> Int_(600), y |-> Int_(10), width |-> Int_(5000), height |-> Int_(50)]
AreaNegativeWidth ==
    [page |-> Int_(1), x |-> Int_(10), y |-> Int_(10), width |-> Int_(-5), height |-> Int_(50)]
AreaWithoutXY ==
    [page |-> Int_(1), x |-> Absent, y |-> Absent, width |-> Int_(50), height |-> Int_(50)]
AreaWithoutPage ==
    [page |-> Absent, x |-> Int_(0), y |-> Int_(0), width |-> Int_(10000), height |-> Int_(1)]
AreaFloatPage ==
    [page |-> Float_(1), x |-> Int_(10), y |-> Int_(10), width |-> Int_(50), height |-> Int_(50)]

RequestAreas ==
    {AreaOn(1), AreaOn(MaxDocPages), AreaOn(MaxDocPages + 1), AreaBeyondPage,
     AreaNegativeWidth, AreaWithoutXY, AreaWithoutPage, AreaFloatPage}

\* The area list of a request: the dictionaries items followed by pad empty
\* dictionaries {}.
AreaLists ==
    {[items |-> items, pad |-> pad] :
        items \in UNION {[1..n -> RequestAreas] : n \in 0..MaxAreas},
        pad \in {0, MAX_REDACTIONS}}

RedactionRequests ==
    [fileId : {NameGood, NameTraversal, NameBad},
     outputName : {NameDefault, NameBad, None},
     areas : AreaLists,
     categories : {<<>>},
     confidenceThreshold : {0}]

PIIDetectionRequests ==
    [fileId : {NameGood, NameBad},
     outputName : {None},
     areas : {[items |-> <<>>, pad |-> 0]},
     categories : {<<"SSN", "NAME">>, <<"CREDIT_CARD", "PASSPORT">>,
                   <<"NAME", "CREDIT_CARD", "SSN">>},
     confidenceThreshold : {70, 76}]

\* the strings given to sanitize_filename
MaxNameLen == 3
NameChars == {"a", "B", "7", ".", "-", "_", "/", " ", "\n"}
FilenameInputs == UNION {[1..n -> NameChars] : n \in 0..MaxNameLen}

NoRequest ==
    [fileId |-> <<>>, outputName |-> None, areas |-> [items |-> <<>>, pad |-> 0],
     categories |-> <<>>, confidenceThreshold |-> 0]
NoFile == [exists |-> FALSE, size_mb |-> 0, corrupt |-> FALSE, pages |-> <<>>]

-----------------------------------------------------------------------------
(* The /redact and /detect-pii handlers (app.py)                           *)

PageCount == Len(stored.pages)
Items == request.areas.items

\* get_file_path followed by the size check: the exception raised ("none": the
\* path is returned) when the download, if any, succeeds (downloaded) or fails
LocateOutcome(downloaded) ==
    IF STORAGE_TYPE \in {"s3", "r2"}
    THEN IF ~stored.exists THEN "HTTP404"
         ELSE IF ~downloaded THEN "HTTP500"
         ELSE IF stored.size_mb > MAX_FILE_SIZE_MB THEN "HTTP413"
         ELSE "none"
    ELSE IF ~stored.exists THEN "HTTP404"
         ELSE IF stored.size_mb > MAX_FILE_SIZE_MB THEN "HTTP413"
         ELSE "none"

\* a request arrives
Receive ==
    /\ pc = "idle"
    /\ \/ endpoint' = "redact" /\ request' \in RedactionRequests
       \/ endpoint' = "detect-pii" /\ request' \in PIIDetectionRequests
    /\ pc' = "start"
    /\ UNCHANGED <<functionVars, STORAGE_TYPE, stored, doc, closes, idx, annots, applied,
                   redactions_applied, temp_input, temp_output, bucket_output,
                   raised, response, fault, pii_findings, page_i, span_i, statistics>>

\* redact_pdf: the two sanitize_filename calls
RedactSanitize ==
    /\ pc = "start" /\ endpoint = "redact"
    /\ LET a == sanitize_filename(request.fileId)
           b == sanitize_filename(request.outputName)
           exc == IF a.err = "ValueError" THEN "HTTP400"
                  ELSE IF a.err # "none" THEN "Exception"
                  ELSE IF b.err = "ValueError" THEN "HTTP400"
                  ELSE IF b.err # "none" THEN "Exception"
                  ELSE "none"
       IN  IF exc = "none"
           THEN pc' = "locate" /\ UNCHANGED <<raised, response>>
           ELSE pc' = "done" /\ raised' = exc /\ response' = ResponseTo(exc)
    /\ UNCHANGED <<functionVars, endpoint, request, STORAGE_TYPE, stored, doc, closes, idx, annots,
                   applied, redactions_applied, temp_input, temp_output, bucket_output,
                   fault, pii_findings, page_i, span_i, statistics>>

\* redact_pdf: get_file_path and the file size check
RedactLocate ==
    /\ pc = "locate" /\ endpoint = "redact"
    /\ \E downloaded \in BOOLEAN :
          /\ (~downloaded) => (STORAGE_TYPE \in {"s3", "r2"} /\ stored.exists)
          /\ LET exc == LocateOutcome(downloaded)
             IN  /\ IF exc = "none"
                    THEN pc' = "check" /\ UNCHANGED <<raised, response>>
                    ELSE pc' = "done" /\ raised' = exc /\ response' = ResponseTo(exc)
                 /\ temp_input' = (STORAGE_TYPE \in {"s3", "r2"} /\ stored.exists /\ downloaded)
                 /\ fault' = (fault \/ ~downloaded)
    /\ UNCHANGED <<functionVars, endpoint, request, STORAGE_TYPE, stored, doc, closes, idx, annots,
                   applied, redactions_applied, temp_output, bucket_output,
                   pii_findings, page_i, span_i, statistics>>

\* redact_pdf: the checks of request.areas
RedactCheckAreas ==
    /\ pc = "check" /\ endpoint = "redact"
    /\ IF Len(Items) + request.areas.pad > MAX_REDACTIONS
       THEN pc' = "done" /\ raised' = "HTTP400" /\ response' = ResponseTo("HTTP400")
       ELSE pc' = "open" /\ UNCHANGED <<raised, response>>
    /\ UNCHANGED <<functionVars, endpoint, request, STORAGE_TYPE, stored, doc, closes, idx, annots,
                   applied, redactions_applied, temp_input, temp_output, bucket_output,
                   fault, pii_findings, page_i, span_i, statistics>>

\* redact_pdf: fitz.open
RedactOpen ==
    /\ pc = "open" /\ endpoint = "redact"
    /\ IF stored.corrupt
       THEN /\ pc' = "done" /\ raised' = "HTTP400" /\ response' = ResponseTo("HTTP400")
            /\ UNCHANGED <<doc, annots>>
       ELSE /\ pc' = "validate" /\ doc' = "open"
            /\ annots' = [p \in 1..PageCount |-> 0]
            /\ UNCHANGED <<raised, response>>
    /\ UNCHANGED <<functionVars, endpoint, request, STORAGE_TYPE, stored, closes, idx, applied,
                   redactions_applied, temp_input, temp_output, bucket_output,
                   fault, pii_findings, page_i, span_i, statistics>>

\* redact_pdf: the head of the loop over the areas: validate_redaction_area on
\* the next item, continue if it is refused
RedactValidate ==
    /\ pc = "validate" /\ endpoint = "redact"
    /\ idx < Len(Items)
    /\ LET ok == validate_redaction_area(Items[idx + 1], PageCount)
       IN  IF ok = "True" THEN pc' = "annotate" /\ UNCHANGED <<idx, raised>>
           ELSE IF ok = "False" THEN pc' = "validate" /\ idx' = idx + 1 /\ UNCHANGED raised
           ELSE pc' = "finally" /\ raised' = "Exception" /\ UNCHANGED idx
    /\ UNCHANGED <<functionVars, endpoint, request, STORAGE_TYPE, stored, doc, closes, annots,
                   applied, redactions_applied, temp_input, temp_output, bucket_output,
                   response, fault, pii_findings, page_i, span_i, statistics>>

\* redact_pdf: the test behind the warning "Rectangle extends beyond page
\* bounds", for an item that carries x, y, width and height
BeyondPage(item) ==
    LET page_rect == stored.pages[Get(item, "page", 1).v].rect
        x0 == FloatOf(item.x).v
        y0 == FloatOf(item.y).v
        x1 == x0 + FloatOf(item.width).v
        y1 == y0 + FloatOf(item.height).v
    IN  x0 < 0 \/ y0 < 0 \/ x1 > page_rect[1] \/ y1 > page_rect[2]

\* RedactAnnotate with a rectangle beyond the page bounds skipped, not
\* annotated
RedactAnnotateWithinPage ==
    /\ pc = "annotate" /\ endpoint = "redact"
    /\ LET item == Items[idx + 1]
           page_number == Get(item, "page", 1).v - 1
           keyError == \E k \in {"x", "y", "width", "height"} : item[k].t = "absent"
           indexError == \/ Get(item, "page", 1).t # "int"
                         \/ (page_number + 1) \notin 1..PageCount
       IN  \E added \in BOOLEAN :
              IF indexError \/ keyError \/ ~added
              THEN /\ ~added => ~(indexError \/ keyError)
                   /\ pc' = "finally" /\ raised' = "Exception"
                   /\ fault' = (fault \/ ~(indexError \/ keyError))
                   /\ UNCHANGED <<idx, annots, redactions_applied>>
              ELSE IF BeyondPage(item)
              THEN /\ idx' = idx + 1
                   /\ pc' = "validate"
                   /\ UNCHANGED <<annots, redactions_applied, raised, fault>>
              ELSE /\ annots' = [annots EXCEPT ![page_number + 1] = @ + 1]
                   /\ redactions_applied' = redactions_applied + 1
                   /\ idx' = idx + 1
                   /\ pc' = "validate"
                   /\ UNCHANGED <<raised, fault>>
    /\ UNCHANGED <<functionVars, endpoint, request, STORAGE_TYPE, stored, doc, closes,
                   applied, temp_input, temp_output, bucket_output, response,
                   pii_findings, page_i, span_i, statistics>>

\* redact_pdf: the body of the loop for an item that passed: the page is
\* fetched, the rectangle is built from item["x"], item["y"], item["width"] and
\* item["height"], and the annotation is added (add_redact_annot may fail)
RedactAnnotate ==
    /\ pc = "annotate" /\ endpoint = "redact"
    /\ LET item == Items[idx + 1]
           page_number == Get(item, "page", 1).v - 1
           keyError == \E k \in {"x", "y", "width", "height"} : item[k].t = "absent"
           indexError == \/ Get(item, "page", 1).t # "int"
                         \/ (page_number + 1) \notin 1..PageCount
       IN  \E added \in BOOLEAN :
              IF indexError \/ keyError \/ ~added
              THEN /\ ~added => ~(indexError \/ keyError)
                   /\ pc' = "finally" /\ raised' = "Exception"
                   /\ fault' = (fault \/ ~(indexError \/ keyError))
                   /\ UNCHANGED <<idx, annots, redactions_applied>>
              ELSE /\ annots' = [annots EXCEPT ![page_number + 1] = @ + 1]
                   /\ redactions_applied' = redactions_applied + 1
                   /\ idx' = idx + 1
                   /\ pc' = "validate"
                   /\ UNCHANGED <<raised, fault>>
    /\ UNCHANGED <<functionVars, endpoint, request, STORAGE_TYPE, stored, doc, closes, applied,
                   temp_input, temp_output, bucket_output, response,
                   pii_findings, page_i, span_i, statistics>>

\* redact_pdf: the loop over the areas ends; the pad items {} of the list are
\* each refused by validate_redaction_area and skipped
RedactLoopEnd ==
    /\ pc = "validate" /\ endpoint = "redact"
    /\ idx = Len(Items)
    /\ IF request.areas.pad > 0 /\ validate_redaction_area(NoArea, PageCount) # "False"
       THEN pc' = "finally" /\ raised' = "Exception" /\ UNCHANGED <<idx, page_i>>
       ELSE pc' = "apply" /\ idx' = idx + request.areas.pad /\ page_i' = 0
            /\ UNCHANGED raised
    /\ UNCHANGED <<functionVars, endpoint, request, STORAGE_TYPE, stored, doc, closes, annots,
                   applied, redactions_applied, temp_input, temp_output, bucket_output,
                   response, fault, pii_findings, span_i, statistics>>

\* redact_pdf: doc[page_num].apply_redactions() for the next page
RedactApply ==
    /\ pc = "apply" /\ endpoint = "redact"
    /\ page_i < PageCount
    /\ \E burned \in BOOLEAN :
          IF burned
          THEN /\ applied' = applied \cup {page_i + 1}
               /\ page_i' = page_i + 1
               /\ UNCHANGED <<pc, raised, fault>>
          ELSE /\ pc' = "finally" /\ raised' = "Exception" /\ fault' = TRUE
               /\ UNCHANGED <<applied, page_i>>
    /\ UNCHANGED <<functionVars, endpoint, request, STORAGE_TYPE, stored, doc, closes, idx, annots,
                   redactions_applied, temp_input, temp_output, bucket_output,
                   response, pii_findings, span_i, statistics>>

\* RedactSave without waiting for the page loop to end
RedactSaveEarly ==
    /\ pc = "apply" /\ endpoint = "redact"
    /\ page_i <= PageCount
    /\ \E saved \in BOOLEAN :
          IF saved
          THEN pc' = "store" /\ temp_output' = TRUE /\ UNCHANGED <<raised, fault>>
          ELSE pc' = "finally" /\ raised' = "Exception" /\ fault' = TRUE
               /\ UNCHANGED temp_output
    /\ UNCHANGED <<functionVars, endpoint, request, STORAGE_TYPE, stored, doc, closes,
                   idx, annots, applied, redactions_applied, temp_input, bucket_output,
                   response, pii_findings, page_i, span_i, statistics>>

\* redact_pdf: doc.save(TEMP_PATH / safe_output_name); a save that fails is
\* taken to leave no file
RedactSave ==
    /\ pc = "apply" /\ endpoint = "redact"
    /\ page_i = PageCount
    /\ \E saved \in BOOLEAN :
          IF saved
          THEN pc' = "store" /\ temp_output' = TRUE /\ UNCHANGED <<raised, fault>>
          ELSE pc' = "finally" /\ raised' = "Exception" /\ fault' = TRUE
               /\ UNCHANGED temp_output
    /\ UNCHANGED <<functionVars, endpoint, request, STORAGE_TYPE, stored, doc, closes, idx, annots,
                   applied, redactions_applied, temp_input, bucket_output,
                   response, pii_findings, page_i, span_i, statistics>>

\* redact_pdf: save_output_file: with cloud storage upload_to_s3 uploads the
\* local file and unlinks it, or raises HTTPException(500) when the upload fails
RedactStore ==
    /\ pc = "store" /\ endpoint = "redact"
    /\ IF STORAGE_TYPE \in {"s3", "r2"}
       THEN \E uploaded \in BOOLEAN :
               IF uploaded
               THEN /\ bucket_output' = TRUE /\ temp_output' = FALSE
                    /\ pc' = "return" /\ UNCHANGED <<raised, fault>>
               ELSE /\ pc' = "finally" /\ raised' = "HTTP500" /\ fault' = TRUE
                    /\ UNCHANGED <<bucket_output, temp_output>>
       ELSE pc' = "return" /\ UNCHANGED <<bucket_output, temp_output, raised, fault>>
    /\ UNCHANGED <<functionVars, endpoint, request, STORAGE_TYPE, stored, doc, closes, idx, annots,
                   applied, redactions_applied, temp_input, response,
                   pii_findings, page_i, span_i, statistics>>

\* redact_pdf: the return statement
RedactReturn ==
    /\ pc = "return" /\ endpoint = "redact"
    /\ pc' = "finally"
    /\ UNCHANGED <<functionVars, endpoint, request, STORAGE_TYPE, stored, doc, closes, idx, annots,
                   applied, redactions_applied, temp_input, temp_output, bucket_output,
                   raised, response, fault, pii_findings, page_i, span_i, statistics>>

\* RedactFinally with the close left to the success path
RedactFinallyOnSuccess ==
    /\ pc = "finally" /\ endpoint = "redact"
    /\ IF raised = "none"
       THEN doc' = "closed" /\ closes' = closes + 1
       ELSE UNCHANGED <<doc, closes>>
    /\ response' = IF raised = "none" THEN "success" ELSE ResponseTo(raised)
    /\ pc' = "done"
    /\ UNCHANGED <<functionVars, endpoint, request, STORAGE_TYPE, stored, idx, annots,
                   applied, redactions_applied, temp_input, temp_output, bucket_output,
                   raised, fault, pii_findings, page_i, span_i, statistics>>

\* redact_pdf: finally: doc.close(), then the value returned or the exception
\* raised leaves the handler
RedactFinally ==
    /\ pc = "finally" /\ endpoint = "redact"
    /\ doc' = "closed"
    /\ closes' = closes + 1
    /\ response' = IF raised = "none" THEN "success" ELSE ResponseTo(raised)
    /\ pc' = "done"
    /\ UNCHANGED <<functionVars, endpoint, request, STORAGE_TYPE, stored, idx, annots,
                   applied, redactions_applied, temp_input, temp_output, bucket_output,
                   raised, fault, pii_findings, page_i, span_i, statistics>>

\* detect_pii: sanitize_filename(request.fileId)
DetectPiiSanitize ==
    /\ pc = "start" /\ endpoint = "detect-pii"
    /\ LET a == sanitize_filename(request.fileId)
       IN  IF a.err = "none" THEN pc' = "locate" /\ UNCHANGED raised
           ELSE /\ pc' = "finally"
                /\ raised' = IF a.err = "ValueError" THEN "HTTP400" ELSE "Exception"
    /\ UNCHANGED <<functionVars, endpoint, request, STORAGE_TYPE, stored, doc, closes, idx, annots,
                   applied, redactions_applied, temp_input, temp_output, bucket_output,
                   response, fault, pii_findings, page_i, span_i, statistics>>

\* detect_pii: get_file_path and the file size check
DetectPiiLocate ==
    /\ pc = "locate" /\ endpoint = "detect-pii"
    /\ \E downloaded \in BOOLEAN :
          /\ (~downloaded) => (STORAGE_TYPE \in {"s3", "r2"} /\ stored.exists)
          /\ LET exc == LocateOutcome(downloaded)
             IN  /\ IF exc = "none"
                    THEN pc' = "open" /\ UNCHANGED raised
                    ELSE pc' = "finally" /\ raised' = exc
                 /\ temp_input' = (STORAGE_TYPE \in {"s3", "r2"} /\ stored.exists /\ downloaded)
                 /\ fault' = (fault \/ ~downloaded)
    /\ UNCHANGED <<functionVars, endpoint, request, STORAGE_TYPE, stored, doc, closes, idx, annots,
                   applied, redactions_applied, temp_output, bucket_output,
                   response, pii_findings, page_i, span_i, statistics>>

\* detect_pii: pdf_doc = fitz.open(...)
DetectPiiOpen ==
    /\ pc = "open" /\ endpoint = "detect-pii"
    /\ IF stored.corrupt
       THEN pc' = "finally" /\ raised' = "HTTP400" /\ UNCHANGED doc
       ELSE pc' = "scan" /\ doc' = "open" /\ UNCHANGED raised
    /\ UNCHANGED <<functionVars, endpoint, request, STORAGE_TYPE, stored, closes, idx, annots,
                   applied, redactions_applied, temp_input, temp_output, bucket_output,
                   response, fault, pii_findings, page_i, span_i, statistics>>

\* detect_pii: the next page of the loop: page.get_text("dict") (may fail)
DetectPiiPage ==
    /\ pc = "scan" /\ endpoint = "detect-pii"
    /\ page_i < PageCount
    /\ page_i > 0 => span_i = Len(stored.pages[page_i].spans)
    /\ \E extracted \in BOOLEAN :
          IF extracted
          THEN page_i' = page_i + 1 /\ span_i' = 0 /\ UNCHANGED <<pc, raised, fault>>
          ELSE /\ pc' = "finally" /\ raised' = "Exception" /\ fault' = TRUE
               /\ UNCHANGED <<page_i, span_i>>
    /\ UNCHANGED <<functionVars, endpoint, request, STORAGE_TYPE, stored, doc, closes, idx, annots,
                   applied, redactions_applied, temp_input, temp_output, bucket_output,
                   response, pii_findings, statistics>>

\* DetectPiiSpan putting the findings of the span before those collected
DetectPiiSpanPrepend ==
    /\ pc = "scan" /\ endpoint = "detect-pii"
    /\ page_i > 0
    /\ span_i < Len(stored.pages[page_i].spans)
    /\ LET span == stored.pages[page_i].spans[span_i + 1]
           fs == FindingsOf(span.text, span.bbox, page_i, request.categories,
                            request.confidenceThreshold)
       IN  \E uuid \in [1..Len(fs) -> Uuid8] :
              pii_findings' = AssignIds(fs, uuid) \o pii_findings
    /\ span_i' = span_i + 1
    /\ UNCHANGED <<functionVars, endpoint, request, STORAGE_TYPE, stored, doc, closes,
                   idx, annots, applied, redactions_applied, temp_input, temp_output,
                   bucket_output, raised, response, fault, page_i, pc, statistics>>

\* detect_pii: detect_in_text on the next span of the page, with the 1-based
\* page number, and findings.extend(span_findings)
DetectPiiSpan ==
    /\ pc = "scan" /\ endpoint = "detect-pii"
    /\ page_i > 0
    /\ span_i < Len(stored.pages[page_i].spans)
    /\ LET span == stored.pages[page_i].spans[span_i + 1]
           fs == FindingsOf(span.text, span.bbox, page_i, request.categories,
                            request.confidenceThreshold)
       IN  \E uuid \in [1..Len(fs) -> Uuid8] :
              pii_findings' = pii_findings \o AssignIds(fs, uuid)
    /\ span_i' = span_i + 1
    /\ UNCHANGED <<functionVars, endpoint, request, STORAGE_TYPE, stored, doc, closes, idx, annots,
                   applied, redactions_applied, temp_input, temp_output, bucket_output,
                   raised, response, fault, page_i, pc, statistics>>

\* detect_pii: calculate_statistics and the return statement
DetectPiiReturn ==
    /\ pc = "scan" /\ endpoint = "detect-pii"
    /\ page_i = PageCount
    /\ page_i > 0 => span_i = Len(stored.pages[page_i].spans)
    /\ statistics' = calculate_statistics(pii_findings)
    /\ pc' = "finally"
    /\ UNCHANGED <<functionVars, endpoint, request, STORAGE_TYPE, stored, doc, closes, idx, annots,
                   applied, redactions_applied, temp_input, temp_output, bucket_output,
                   raised, response, fault, pii_findings, page_i, span_i>>

\* detect_pii: finally: pdf_doc.close() if it was opened, then the value
\* returned or the exception raised leaves the handler
DetectPiiFinally ==
    /\ pc = "finally" /\ endpoint = "detect-pii"
    /\ IF doc # "None"
       THEN doc' = "closed" /\ closes' = closes + 1
       ELSE UNCHANGED <<doc, closes>>
    /\ response' = IF raised = "none" THEN "success" ELSE ResponseTo(raised)
    /\ pc' = "done"
    /\ UNCHANGED <<functionVars, endpoint, request, STORAGE_TYPE, stored, idx, annots,
                   applied, redactions_applied, temp_input, temp_output, bucket_output,
                   raised, fault, pii_findings, page_i, span_i, statistics>>

-----------------------------------------------------------------------------
(* Specifications                                                          *)

LuhnIdle == card_number = <<>> /\ luhn_result = "idle"
ValidateIdle == area = NoArea /\ page_count = 0 /\ valid = "idle"
ScoreIdle == score_category = "" /\ score_text = <<>> /\ score = -3
DetectIdle ==
    /\ text = <<>> /\ bbox = <<0, 0, 0, 0>> /\ page_num = 0 /\ categories = <<>>
    /\ confidence_threshold = 0 /\ findings = <<>> /\ detect_state = "idle"
    /\ findings_again = <<>>

SanitizeIdle == filename = <<>> /\ sanitized = [err |-> "idle", name |-> <<>>]
PairIdle == pair = <<>> /\ TEMP_PATH = <<>> /\ bucket = <<>>
SplitIdle ==
    /\ pages_per_split = 0 /\ start_page = 0 /\ max_size_bytes = 0
    /\ current_doc = <<>> /\ current_pages = 0 /\ chunk_number = 0
    /\ open_chunks = 0 /\ chunk_files = <<>> /\ output_files = <<>>
RestIdle == SanitizeIdle /\ PairIdle /\ SplitIdle
StatsIdle == stats_findings = <<>> /\ stats_result = NoStatistics /\ stats_state = "idle"

RequestIdle ==
    /\ STORAGE_TYPE = "local" /\ stored = NoFile /\ endpoint = "" /\ request = NoRequest
    /\ pc = "off" /\ doc = "None" /\ closes = 0 /\ idx = 0 /\ annots = <<>>
    /\ applied = {} /\ redactions_applied = 0 /\ temp_input = FALSE
    /\ temp_output = FALSE /\ bucket_output = FALSE /\ raised = "none"
    /\ response = "none" /\ fault = FALSE /\ pii_findings = <<>> /\ page_i = 0
    /\ span_i = 0 /\ statistics = NoStatistics

LuhnInit ==
    /\ card_number \in CardInputs
    /\ luhn_result = "pending"
    /\ ValidateIdle /\ ScoreIdle /\ DetectIdle /\ RequestIdle /\ StatsIdle /\ RestIdle

LuhnCall ==
    /\ luhn_result = "pending"
    /\ luhn_result' = luhn_check(card_number)
    /\ UNCHANGED <<card_number, validateVars, scoreVars, detectVars, requestVars, statsVars, restVars>>

SpecLuhn == LuhnInit /\ [][LuhnCall]_vars

ValidateInit ==
    /\ area \in AreaInputs
    /\ page_count \in 0..MaxPages
    /\ valid = "pending"
    /\ LuhnIdle /\ ScoreIdle /\ DetectIdle /\ RequestIdle /\ StatsIdle /\ RestIdle

ValidateCall ==
    /\ valid = "pending"
    /\ valid' = validate_redaction_area(area, page_count)
    /\ UNCHANGED <<area, page_count, luhnVars, scoreVars, detectVars, requestVars, statsVars, restVars>>

SpecValidate == ValidateInit /\ [][ValidateCall]_vars

ScoreInit ==
    /\ score_category \in ScoreCategories
    /\ score_text \in SpanTexts
    /\ score = -2
    /\ LuhnIdle /\ ValidateIdle /\ DetectIdle /\ RequestIdle /\ StatsIdle /\ RestIdle

ScoreCall ==
    /\ score = -2
    /\ score' = calculate_confidence(score_category, score_text)
    /\ UNCHANGED <<score_category, score_text, luhnVars, validateVars, detectVars,
                   requestVars, statsVars, restVars>>

SpecScore == ScoreInit /\ [][ScoreCall]_vars

DetectInit ==
    /\ text \in SpanTexts
    /\ bbox \in SpanBoxes
    /\ page_num \in 1..MaxPageNum
    /\ categories \in CategoryLists
    /\ confidence_threshold \in Thresholds
    /\ findings = <<>>
    /\ findings_again = <<>>
    /\ detect_state = "pending"
    /\ LuhnIdle /\ ValidateIdle /\ ScoreIdle /\ RequestIdle /\ StatsIdle /\ RestIdle

DetectCall ==
    /\ detect_state = "pending"
    /\ LET fs == FindingsOf(text, bbox, page_num, categories, confidence_threshold)
       IN  \E uuid \in [1..Len(fs) -> Uuid8] : findings' = AssignIds(fs, uuid)
    /\ detect_state' = "returned"
    /\ UNCHANGED <<text, bbox, page_num, categories, confidence_threshold, findings_again,
                   luhnVars, validateVars, scoreVars, requestVars, statsVars, restVars>>

SpecDetect == DetectInit /\ [][DetectCall]_vars

\* the thresholds of the calls that are made twice
RepeatThresholds == {0, 76}

DetectTwiceInit == DetectInit /\ confidence_threshold \in RepeatThresholds

\* detect_in_text called again with the arguments of the call that returned
DetectCallAgain ==
    /\ detect_state = "returned"
    /\ LET fs == FindingsOf(text, bbox, page_num, categories, confidence_threshold)
       IN  \E uuid \in [1..Len(fs) -> Uuid8] : findings_again' = AssignIds(fs, uuid)
    /\ detect_state' = "repeated"
    /\ UNCHANGED <<text, bbox, page_num, categories, confidence_threshold, findings,
                   luhnVars, validateVars, scoreVars, requestVars, statsVars, restVars>>

SpecDetectTwice == DetectTwiceInit /\ [][DetectCall \/ DetectCallAgain]_vars

StatsInit ==
    /\ stats_findings \in StatsInputs
    /\ stats_result = NoStatistics
    /\ stats_state = "pending"
    /\ LuhnIdle /\ ValidateIdle /\ ScoreIdle /\ DetectIdle /\ RequestIdle /\ RestIdle

StatsCall ==
    /\ stats_state = "pending"
    /\ stats_result' = calculate_statistics(stats_findings)
    /\ stats_state' = "returned"
    /\ UNCHANGED <<stats_findings, luhnVars, validateVars, scoreVars, detectVars,
                   requestVars, restVars>>

SpecStats == StatsInit /\ [][StatsCall]_vars

SanitizeInit ==
    /\ filename \in FilenameInputs
    /\ sanitized = [err |-> "pending", name |-> <<>>]
    /\ LuhnIdle /\ ValidateIdle /\ ScoreIdle /\ DetectIdle /\ StatsIdle /\ RequestIdle
    /\ PairIdle /\ SplitIdle

SanitizeCall ==
    /\ sanitized.err = "pending"
    /\ sanitized' = sanitize_filename(filename)
    /\ UNCHANGED <<filename, luhnVars, validateVars, scoreVars, detectVars, statsVars,
                   requestVars, pairVars, splitVars>>

SpecSanitize == SanitizeInit /\ [][SanitizeCall]_vars

-----------------------------------------------------------------------------
(* Two requests served at the same time (app.py)                           *)

\* no request's document
Nobody == 0

OutputNames == {"redacted.pdf", "out.pdf"}

\* the two requests: /redact with an output name, or /detect-pii
PairRequests ==
    [endpoint : {"redact"}, outputName : OutputNames, pc : {"start"}, response : {"none"}]
    \cup [endpoint : {"detect-pii"}, outputName : {"redacted.pdf"}, pc : {"start"},
          response : {"none"}]

PairInit ==
    /\ pair \in [1..2 -> PairRequests]
    /\ TEMP_PATH = [name \in OutputNames |-> Nobody]
    /\ bucket = [name \in OutputNames |-> Nobody]
    /\ STORAGE_TYPE \in {"local", "s3"}
    /\ stored = NoFile /\ endpoint = "" /\ request = NoRequest
    /\ pc = "off" /\ doc = "None" /\ closes = 0 /\ idx = 0 /\ annots = <<>>
    /\ applied = {} /\ redactions_applied = 0 /\ temp_input = FALSE
    /\ temp_output = FALSE /\ bucket_output = FALSE /\ raised = "none"
    /\ response = "none" /\ fault = FALSE /\ pii_findings = <<>> /\ page_i = 0
    /\ span_i = 0 /\ statistics = NoStatistics
    /\ LuhnIdle /\ ValidateIdle /\ ScoreIdle /\ DetectIdle /\ StatsIdle /\ SanitizeIdle
    /\ SplitIdle

PairUnchanged ==
    UNCHANGED <<luhnVars, validateVars, scoreVars, detectVars, statsVars, sanitizeVars,
                requestVars, splitVars>>

\* redact_pdf of request r up to the end of the apply loop, detect_pii of
\* request r up to its return: the document is opened and worked on in memory
PairProcess(r) ==
    /\ pair[r].pc = "start"
    /\ pair' = [pair EXCEPT ![r].pc =
                   IF pair[r].endpoint = "redact" THEN "save" ELSE "return"]
    /\ UNCHANGED <<TEMP_PATH, bucket>>
    /\ PairUnchanged

\* redact_pdf of request r: doc.save(TEMP_PATH / safe_output_name)
PairSave(r) ==
    /\ pair[r].pc = "save"
    /\ TEMP_PATH' = [TEMP_PATH EXCEPT ![pair[r].outputName] = r]
    /\ pair' = [pair EXCEPT ![r].pc = "store"]
    /\ UNCHANGED bucket
    /\ PairUnchanged

\* redact_pdf of request r: save_output_file: with cloud storage the file at
\* the output path is uploaded and unlinked; upload_file raises when the file
\* is not there and upload_to_s3 turns that into HTTPException(500)
PairStore(r) ==
    /\ pair[r].pc = "store"
    /\ IF STORAGE_TYPE \in {"s3", "r2"}
       THEN IF TEMP_PATH[pair[r].outputName] = Nobody
            THEN /\ pair' = [pair EXCEPT ![r].pc = "done", ![r].response = "500"]
                 /\ UNCHANGED <<TEMP_PATH, bucket>>
            ELSE /\ bucket' = [bucket EXCEPT ![pair[r].outputName] =
                                  TEMP_PATH[pair[r].outputName]]
                 /\ TEMP_PATH' = [TEMP_PATH EXCEPT ![pair[r].outputName] = Nobody]
                 /\ pair' = [pair EXCEPT ![r].pc = "return"]
       ELSE /\ pair' = [pair EXCEPT ![r].pc = "return"]
            /\ UNCHANGED <<TEMP_PATH, bucket>>
    /\ PairUnchanged

\* the return statement of request r
PairReturn(r) ==
    /\ pair[r].pc = "return"
    /\ pair' = [pair EXCEPT ![r].pc = "done", ![r].response = "success"]
    /\ UNCHANGED <<TEMP_PATH, bucket>>
    /\ PairUnchanged

PairNext ==
    \E r \in 1..2 : PairProcess(r) \/ PairSave(r) \/ PairStore(r) \/ PairReturn(r)

SpecPair == PairInit /\ [][PairNext]_vars

-----------------------------------------------------------------------------
(* The /split/pattern and /split/size handlers (app.py)                    *)

RECURSIVE DecimalOf(_)
\* the number a sequence of decimal digits writes
DecimalOf(ds) ==
    IF ds = <<>> THEN 0 ELSE 10 * DecimalOf(SubSeq(ds, 1, Len(ds) - 1)) + IntOf(ds[Len(ds)])

\* int(s) of a str without underscores: surrounding whitespace is dropped, one
\* sign may lead, and what remains must be one or more decimal digits
ParseInt(s) ==
    LET t == Strip(s)
        signed == t # <<>> /\ Head(t) \in {"+", "-"}
        body == IF signed THEN Tail(t) ELSE t
    IN  IF body = <<>> \/ \E i \in 1..Len(body) : body[i] \notin AsciiDigit
        THEN [err |-> "ValueError", v |-> 0]
        ELSE [err |-> "none",
              v |-> IF signed /\ Head(t) = "-" THEN 0 - DecimalOf(body) ELSE DecimalOf(body)]

\* the pages first..last (0-based), as insert_pdf(from_page, to_page) copies them
PageRange(first, last) == [i \in 1..(last - first + 1) |-> first + i - 1]

RECURSIVE SizeOf(_)
\* st_size of the file a document of these pages is saved to
SizeOf(ps) == IF ps = <<>> THEN 0 ELSE stored.pages[Head(ps) + 1].bytes + SizeOf(Tail(ps))

\* the file saved under chunk number k holds the pages ps
SavedAs(k, ps) == [j \in DOMAIN chunk_files \cup {k} |-> IF j = k THEN ps ELSE chunk_files[j]]

MaxSplitPages == 3

RECURSIVE SizedPages(_)
\* the documents of n pages, each page of 1 KB or 2 KB
SizedPages(n) ==
    IF n = 0 THEN {<<>>}
    ELSE {Append(ps, [bytes |-> b]) : ps \in SizedPages(n - 1), b \in {1024, 2048}}

SplitStoredFiles ==
    {[exists |-> FALSE, size_mb |-> 0, corrupt |-> FALSE, pages |-> <<>>],
     [exists |-> TRUE, size_mb |-> 51, corrupt |-> FALSE, pages |-> <<[bytes |-> 1024]>>],
     [exists |-> TRUE, size_mb |-> 1, corrupt |-> TRUE, pages |-> <<>>]}
    \cup {[exists |-> TRUE, size_mb |-> 1, corrupt |-> FALSE, pages |-> ps] :
             ps \in UNION {SizedPages(n) : n \in 1..MaxSplitPages}}

Patterns ==
    {<<"1">>, <<"2">>, <<"3">>, <<"1", "0">>, <<"0">>, <<"-", "1">>, <<"+", "2">>,
     <<" ", "2", "\n">>, <<"2", ".", "5">>, <<"a">>, <<>>}

SplitByPatternRequests ==
    [fileId : {NameGood, NameBad}, splitByPattern : Patterns, maxSizeKB : {0},
     outputName : {None, NameGood, NameBad}]

SplitBySizeRequests ==
    [fileId : {NameGood, NameBad}, splitByPattern : {<<>>}, maxSizeKB : -1..4,
     outputName : {None, NameGood, NameBad}]

\* the variables of the request that the split handlers leave alone
redactVars ==
    <<idx, annots, applied, redactions_applied, temp_output, bucket_output, pii_findings,
      span_i, statistics>>
otherVars == <<luhnVars, validateVars, scoreVars, detectVars, statsVars, sanitizeVars, pairVars>>

\* a request arrives at /split/pattern or /split/size
SplitReceive ==
    /\ pc = "idle"
    /\ \/ endpoint' = "split/pattern" /\ request' \in SplitByPatternRequests
       \/ endpoint' = "split/size" /\ request' \in SplitBySizeRequests
    /\ pc' = "sanitize"
    /\ UNCHANGED <<STORAGE_TYPE, stored, doc, closes, temp_input, raised, response, fault,
                   page_i, redactVars, otherVars, splitVars>>

\* sanitize_filename(request.fileId): ValueError becomes HTTPException(400)
SplitSanitize ==
    /\ pc = "sanitize" /\ endpoint \in {"split/pattern", "split/size"}
    /\ IF sanitize_filename(request.fileId).err = "none"
       THEN pc' = "locate" /\ UNCHANGED raised
       ELSE pc' = "finally" /\ raised' = "HTTP400"
    /\ UNCHANGED <<STORAGE_TYPE, stored, endpoint, request, doc, closes, temp_input, response,
                   fault, page_i, redactVars, otherVars, splitVars>>

\* get_file_path(safe_id, "uploads") and the file size check
SplitLocate ==
    /\ pc = "locate" /\ endpoint \in {"split/pattern", "split/size"}
    /\ \E downloaded \in BOOLEAN :
          /\ (~downloaded) => (STORAGE_TYPE \in {"s3", "r2"} /\ stored.exists)
          /\ LET exc == LocateOutcome(downloaded)
             IN  /\ IF exc = "none"
                    THEN pc' = "parse" /\ UNCHANGED raised
                    ELSE pc' = "finally" /\ raised' = exc
                 /\ temp_input' = (STORAGE_TYPE \in {"s3", "r2"} /\ stored.exists /\ downloaded)
                 /\ fault' = (fault \/ ~downloaded)
    /\ UNCHANGED <<STORAGE_TYPE, stored, endpoint, request, doc, closes, response,
                   page_i, redactVars, otherVars, splitVars>>

\* split_pdf_by_pattern: int(request.splitByPattern) and the test <= 0, both
\* ending in HTTPException(400)
PatternParse ==
    /\ pc = "parse" /\ endpoint = "split/pattern"
    /\ LET n == ParseInt(request.splitByPattern)
       IN  IF n.err # "none" \/ n.v <= 0
           THEN pc' = "finally" /\ raised' = "HTTP400" /\ UNCHANGED pages_per_split
           ELSE pc' = "name" /\ pages_per_split' = n.v /\ UNCHANGED raised
    /\ UNCHANGED <<STORAGE_TYPE, stored, endpoint, request, doc, closes, temp_input, response,
                   fault, page_i, redactVars, otherVars, start_page, max_size_bytes,
                   current_doc, current_pages, chunk_number, open_chunks, chunk_files,
                   output_files>>

\* split_pdf_by_size: the test maxSizeKB <= 0 and max_size_bytes
SizeParse ==
    /\ pc = "parse" /\ endpoint = "split/size"
    /\ IF request.maxSizeKB <= 0
       THEN pc' = "finally" /\ raised' = "HTTP400" /\ UNCHANGED max_size_bytes
       ELSE pc' = "name" /\ max_size_bytes' = request.maxSizeKB * 1024 /\ UNCHANGED raised
    /\ UNCHANGED <<STORAGE_TYPE, stored, endpoint, request, doc, closes, temp_input, response,
                   fault, page_i, redactVars, otherVars, pages_per_split, start_page,
                   current_doc, current_pages, chunk_number, open_chunks, chunk_files,
                   output_files>>

\* the base output name: sanitize_filename(request.outputName) where one is
\* given, ValueError becoming HTTPException(400)
SplitOutputName ==
    /\ pc = "name" /\ endpoint \in {"split/pattern", "split/size"}
    /\ IF request.outputName # None /\ sanitize_filename(request.outputName).err # "none"
       THEN pc' = "finally" /\ raised' = "HTTP400"
       ELSE pc' = "open" /\ UNCHANGED raised
    /\ UNCHANGED <<STORAGE_TYPE, stored, endpoint, request, doc, closes, temp_input, response,
                   fault, page_i, redactVars, otherVars, splitVars>>

\* split_pdf_by_pattern: pdf_doc = fitz.open(str(input_path)), which raises on
\* a file that is no PDF
PatternOpen ==
    /\ pc = "open" /\ endpoint = "split/pattern"
    /\ \E opened \in BOOLEAN :
          /\ stored.corrupt => ~opened
          /\ IF opened
             THEN /\ doc' = "open" /\ start_page' = 0
                  /\ pc' = IF pages_per_split >= PageCount THEN "whole" ELSE "chunk"
                  /\ UNCHANGED <<raised, fault>>
             ELSE /\ pc' = "finally" /\ raised' = "Exception"
                  /\ fault' = (fault \/ ~stored.corrupt)
                  /\ UNCHANGED <<doc, start_page>>
    /\ UNCHANGED <<STORAGE_TYPE, stored, endpoint, request, closes, temp_input, response,
                   page_i, redactVars, otherVars, pages_per_split, max_size_bytes,
                   current_doc, current_pages, chunk_number, open_chunks, chunk_files,
                   output_files>>

\* split_pdf_by_pattern, pages_per_split >= page_count: the whole document is
\* saved as {name}.pdf (chunk number 0 here) and stored
PatternWhole ==
    /\ pc = "whole" /\ endpoint = "split/pattern"
    /\ \E outcome \in {"ok", "save", "upload"} :
          /\ outcome = "upload" => STORAGE_TYPE \in {"s3", "r2"}
          /\ chunk_files' = IF outcome = "save" THEN chunk_files
                            ELSE SavedAs(0, PageRange(0, PageCount - 1))
          /\ output_files' = IF outcome = "ok" THEN <<0>> ELSE output_files
          /\ raised' = CASE outcome = "ok" -> raised
                         [] outcome = "save" -> "Exception"
                         [] outcome = "upload" -> "HTTP500"
          /\ fault' = (fault \/ outcome # "ok")
    /\ pc' = "finally"
    /\ UNCHANGED <<STORAGE_TYPE, stored, endpoint, request, doc, closes, temp_input, response,
                   page_i, redactVars, otherVars, pages_per_split, start_page, max_size_bytes,
                   current_doc, current_pages, chunk_number, open_chunks>>

\* PatternChunk with end_page left at start_page + pages_per_split - 1, not
\* clamped to the last page
PatternChunkUnclamped ==
    /\ pc = "chunk" /\ endpoint = "split/pattern"
    /\ start_page < PageCount
    /\ LET last == PageCount - 1
           reach == start_page + pages_per_split - 1
           end_page == reach
           number == (start_page \div pages_per_split) + 1
       IN  \E outcome \in {"ok", "insert_pdf", "save", "upload"} :
              /\ outcome = "upload" => STORAGE_TYPE \in {"s3", "r2"}
              /\ IF outcome \in {"insert_pdf", "save"}
                 THEN /\ open_chunks' = open_chunks + 1
                      /\ raised' = "Exception" /\ pc' = "finally"
                      /\ UNCHANGED <<chunk_number, chunk_files, output_files, start_page>>
                 ELSE /\ chunk_number' = number
                      /\ chunk_files' = SavedAs(number, PageRange(start_page, end_page))
                      /\ UNCHANGED open_chunks
                      /\ IF outcome = "upload"
                         THEN /\ raised' = "HTTP500" /\ pc' = "finally"
                              /\ UNCHANGED <<output_files, start_page>>
                         ELSE /\ output_files' = Append(output_files, number)
                              /\ start_page' = start_page + pages_per_split
                              /\ UNCHANGED <<raised, pc>>
              /\ fault' = (fault \/ outcome # "ok")
    /\ UNCHANGED <<STORAGE_TYPE, stored, endpoint, request, doc, closes, temp_input, response,
                   page_i, redactVars, otherVars, pages_per_split, max_size_bytes,
                   current_doc, current_pages>>

\* split_pdf_by_pattern: one pass of the loop over range(0, page_count,
\* pages_per_split): chunk_doc is created, filled, saved, closed and stored;
\* insert_pdf, save and the upload can raise
PatternChunk ==
    /\ pc = "chunk" /\ endpoint = "split/pattern"
    /\ start_page < PageCount
    /\ LET last == PageCount - 1
           reach == start_page + pages_per_split - 1
           end_page == IF reach < last THEN reach ELSE last
           number == (start_page \div pages_per_split) + 1
       IN  \E outcome \in {"ok", "insert_pdf", "save", "upload"} :
              /\ outcome = "upload" => STORAGE_TYPE \in {"s3", "r2"}
              /\ IF outcome \in {"insert_pdf", "save"}
                 THEN /\ open_chunks' = open_chunks + 1
                      /\ raised' = "Exception" /\ pc' = "finally"
                      /\ UNCHANGED <<chunk_number, chunk_files, output_files, start_page>>
                 ELSE /\ chunk_number' = number
                      /\ chunk_files' = SavedAs(number, PageRange(start_page, end_page))
                      /\ UNCHANGED open_chunks
                      /\ IF outcome = "upload"
                         THEN /\ raised' = "HTTP500" /\ pc' = "finally"
                              /\ UNCHANGED <<output_files, start_page>>
                         ELSE /\ output_files' = Append(output_files, number)
                              /\ start_page' = start_page + pages_per_split
                              /\ UNCHANGED <<raised, pc>>
              /\ fault' = (fault \/ outcome # "ok")
    /\ UNCHANGED <<STORAGE_TYPE, stored, endpoint, request, doc, closes, temp_input, response,
                   page_i, redactVars, otherVars, pages_per_split, max_size_bytes,
                   current_doc, current_pages>>

\* split_pdf_by_pattern: the loop is over, the list of files is returned
PatternLoopEnd ==
    /\ pc = "chunk" /\ endpoint = "split/pattern"
    /\ start_page >= PageCount
    /\ pc' = "finally"
    /\ UNCHANGED <<STORAGE_TYPE, stored, endpoint, request, doc, closes, temp_input, raised,
                   response, fault, page_i, redactVars, otherVars, splitVars>>

\* split_pdf_by_size: pdf_doc = fitz.open(str(input_path)), then the empty
\* current_doc and the counters
SizeOpen ==
    /\ pc = "open" /\ endpoint = "split/size"
    /\ \E opened \in BOOLEAN :
          /\ stored.corrupt => ~opened
          /\ IF opened
             THEN /\ doc' = "open" /\ page_i' = 0
                  /\ current_doc' = <<>> /\ open_chunks' = open_chunks + 1
                  /\ current_pages' = 0 /\ chunk_number' = 1
                  /\ pc' = "page"
                  /\ UNCHANGED <<raised, fault>>
             ELSE /\ pc' = "finally" /\ raised' = "Exception"
                  /\ fault' = (fault \/ ~stored.corrupt)
                  /\ UNCHANGED <<doc, page_i, current_doc, open_chunks, current_pages,
                                 chunk_number>>
    /\ UNCHANGED <<STORAGE_TYPE, stored, endpoint, request, closes, temp_input, response,
                   redactVars, otherVars, pages_per_split, start_page, max_size_bytes,
                   chunk_files, output_files>>

\* split_pdf_by_size: one pass of the loop over the pages (page_num is this_page):
\* the page is added to current_doc, the document is saved to measure it, and
\* a chunk is written when the size is over the limit or the page is the last;
\* insert_pdf, save and the upload can raise
SizePage ==
    /\ pc = "page" /\ endpoint = "split/size"
    /\ page_i < PageCount
    /\ LET this_page == page_i
           with_page == Append(current_doc, this_page)
           pages_now == current_pages + 1
           current_size == SizeOf(with_page)
           over == current_size > max_size_bytes
           overflow == over /\ pages_now > 1
           writes == over \/ this_page = PageCount - 1
           chunk == IF overflow THEN PageRange(this_page - pages_now + 1, this_page - 1)
                    ELSE with_page
       IN  \E outcome \in {"ok", "insert_pdf", "save", "upload"} :
              /\ outcome = "upload" => (writes /\ STORAGE_TYPE \in {"s3", "r2"})
              /\ CASE outcome \in {"insert_pdf", "save"} ->
                        /\ raised' = "Exception" /\ pc' = "finally"
                        /\ UNCHANGED <<current_doc, current_pages, chunk_number, open_chunks,
                                       chunk_files, output_files, page_i>>
                   [] outcome = "upload" ->
                        /\ raised' = "HTTP500" /\ pc' = "finally"
                        /\ chunk_files' = SavedAs(chunk_number, chunk)
                        /\ current_doc' = chunk
                        /\ open_chunks' = open_chunks - 1
                        /\ UNCHANGED <<current_pages, chunk_number, output_files, page_i>>
                   [] outcome = "ok" /\ ~writes ->
                        /\ current_doc' = with_page /\ current_pages' = pages_now
                        /\ page_i' = page_i + 1
                        /\ UNCHANGED <<raised, pc, chunk_number, open_chunks, chunk_files,
                                       output_files>>
                   [] outcome = "ok" /\ writes ->
                        /\ chunk_files' = SavedAs(chunk_number, chunk)
                        /\ output_files' = Append(output_files, chunk_number)
                        /\ current_doc' = IF overflow THEN <<this_page>> ELSE <<>>
                        /\ current_pages' = IF overflow THEN 1 ELSE 0
                        /\ chunk_number' = chunk_number + 1
                        /\ page_i' = page_i + 1
                        /\ UNCHANGED <<raised, pc, open_chunks>>
              /\ fault' = (fault \/ outcome # "ok")
    /\ UNCHANGED <<STORAGE_TYPE, stored, endpoint, request, doc, closes, temp_input, response,
                   redactVars, otherVars, pages_per_split, start_page, max_size_bytes>>

\* split_pdf_by_size: after the loop current_doc is closed and the list of
\* files is returned
SizeLoopEnd ==
    /\ pc = "page" /\ endpoint = "split/size"
    /\ page_i >= PageCount
    /\ open_chunks' = open_chunks - 1
    /\ pc' = "finally"
    /\ UNCHANGED <<STORAGE_TYPE, stored, endpoint, request, doc, closes, temp_input, raised,
                   response, fault, page_i, redactVars, otherVars, pages_per_split, start_page,
                   max_size_bytes, current_doc, current_pages, chunk_number, chunk_files,
                   output_files>>

\* the finally block of the split handlers: pdf_doc is closed if it was opened
SplitFinally ==
    /\ pc = "finally" /\ endpoint \in {"split/pattern", "split/size"}
    /\ IF doc = "open" THEN doc' = "closed" /\ closes' = closes + 1
       ELSE UNCHANGED <<doc, closes>>
    /\ response' = IF raised = "none" THEN "success" ELSE ResponseTo(raised)
    /\ pc' = "done"
    /\ UNCHANGED <<STORAGE_TYPE, stored, endpoint, request, temp_input, raised, fault,
                   page_i, redactVars, otherVars, splitVars>>

\* the service with a file in storage, before a split request
SplitInit ==
    /\ STORAGE_TYPE \in {"local", "s3"}
    /\ stored \in SplitStoredFiles
    /\ endpoint = "" /\ request = NoRequest
    /\ pc = "idle" /\ doc = "None" /\ closes = 0 /\ idx = 0 /\ annots = <<>>
    /\ applied = {} /\ redactions_applied = 0 /\ temp_input = FALSE
    /\ temp_output = FALSE /\ bucket_output = FALSE /\ raised = "none"
    /\ response = "none" /\ fault = FALSE /\ pii_findings = <<>> /\ page_i = 0
    /\ span_i = 0 /\ statistics = NoStatistics
    /\ LuhnIdle /\ ValidateIdle /\ ScoreIdle /\ DetectIdle /\ StatsIdle /\ RestIdle

SplitNext ==
    \/ SplitReceive \/ SplitSanitize \/ SplitLocate \/ PatternParse \/ SizeParse
    \/ SplitOutputName \/ PatternOpen \/ PatternWhole \/ PatternChunk \/ PatternLoopEnd
    \/ SizeOpen \/ SizePage \/ SizeLoopEnd \/ SplitFinally

SpecSplit == SplitInit /\ [][SplitNext]_vars

\* the service with a file in storage, before a request
Init ==
    /\ STORAGE_TYPE \in {"local", "s3"}
    /\ stored \in StoredFiles
    /\ endpoint = "" /\ request = NoRequest
    /\ pc = "idle" /\ doc = "None" /\ closes = 0 /\ idx = 0 /\ annots = <<>>
    /\ applied = {} /\ redactions_applied = 0 /\ temp_input = FALSE
    /\ temp_output = FALSE /\ bucket_output = FALSE /\ raised = "none"
    /\ response = "none" /\ fault = FALSE /\ pii_findings = <<>> /\ page_i = 0
    /\ span_i = 0 /\ statistics = NoStatistics
    /\ LuhnIdle /\ ValidateIdle /\ ScoreIdle /\ DetectIdle /\ StatsIdle /\ RestIdle

Next ==
    \/ Receive
    \/ RedactSanitize \/ RedactLocate \/ RedactCheckAreas \/ RedactOpen
    \/ RedactValidate \/ RedactAnnotate \/ RedactLoopEnd \/ RedactApply
    \/ RedactSave \/ RedactStore \/ RedactReturn \/ RedactFinally
    \/ DetectPiiSanitize \/ DetectPiiLocate \/ DetectPiiOpen \/ DetectPiiPage
    \/ DetectPiiSpan \/ DetectPiiReturn \/ DetectPiiFinally

Spec == Init /\ [][Next]_vars

-----------------------------------------------------------------------------
(* Claims                                                                  *)

RECURSIVE SeqSum(_)
SeqSum(s) == IF s = <<>> THEN 0 ELSE Head(s) + SeqSum(Tail(s))

\* The Luhn mod-10 sum of a sequence of decimal digit characters: the digit
\* at distance k from the right end counts twice (as the sum of the decimal
\* digits of its double) when k is odd.
Mod10Sum(ds) ==
    LET n == Len(ds)
        val(j) == (CHOOSE i \in 1..10 : DigitSeq[i] = ds[j]) - 1
        term(j) == IF (n - j) % 2 = 1
                   THEN ((2 * val(j)) \div 10) + ((2 * val(j)) % 10)
                   ELSE val(j)
    IN  SeqSum([j \in 1..n |-> term(j)])

DecimalDigitsOf(card) == SelectSeq(card, LAMBDA c : c \in AsciiDigit)
HasUnparsableDigit(card) == \E i \in 1..Len(card) : card[i] \in SuperscriptDigit

InvalidCard == Substitute(BaseCard, 16, "7")

\* the JSON values that are numbers
NumberTypes == {"int", "float", "huge"}

\* C2: for an area whose five fields are all numbers, validate_redaction_area
\* returns False exactly when page < 1 or page > page_count, or x < 0 or y < 0,
\* or width <= 0 or height <= 0, or width > 10000 or height > 10000, and True
\* otherwise.
C2_ValidateNumericArea ==
    (valid \notin {"idle", "pending"}
        /\ \A k \in {"page", "x", "y", "width", "height"} : area[k].t \in NumberTypes)
    => LET rejected ==
               \/ area.page.v < 1 \/ area.page.v > page_count
               \/ area.x.v < 0 \/ area.y.v < 0
               \/ area.width.v <= 0 \/ area.height.v <= 0
               \/ area.width.v > 10000 \/ area.height.v > 10000
       IN  /\ valid = "False" <=> rejected
           /\ valid = "True" <=> ~rejected

\* C7 as stated: for every string holding 13 to 19 decimal digits, with every
\* other character ignored, luhn_check returns True exactly when the Luhn
\* mod-10 sum of those digits is divisible by 10.
C7_LuhnIgnoresEveryOtherCharacter ==
    (luhn_result \notin {"idle", "pending"}
        /\ Len(DecimalDigitsOf(card_number)) \in 13..19)
    => (luhn_result = "True" <=> Mod10Sum(DecimalDigitsOf(card_number)) % 10 = 0)

\* C7 amended: the same for every string in which each character that
\* str.isdigit() accepts is a decimal digit; a string holding a character that
\* isdigit() accepts and int() cannot parse gives False; 4532015112830366 is
\* valid and 4532015112830367 is invalid.
C7_LuhnMatchesMod10Sum ==
    luhn_result \notin {"idle", "pending"}
    => /\ (~HasUnparsableDigit(card_number) /\ Len(DecimalDigitsOf(card_number)) \in 13..19)
          => (luhn_result = "True"
                <=> Mod10Sum(DecimalDigitsOf(card_number)) % 10 = 0)
       /\ HasUnparsableDigit(card_number) => luhn_result = "False"
       /\ card_number = BaseCard => luhn_result = "True"
       /\ card_number = InvalidCard => luhn_result = "False"

\* C7 witness: a number written with separators between its groups of digits
\* has been checked and found valid.
C7_SeparatedCardValid ==
    /\ luhn_result = "True"
    /\ \E i \in 1..Len(card_number) : card_number[i] = "-"

\* C8: luhn_check returns False, and does not raise, for every string holding
\* fewer than 13 or more than 19 digit characters, whatever its checksum.
C8_LuhnRejectsByLength ==
    (luhn_result \notin {"idle", "pending"}
        /\ \/ Len(DecimalDigitsOf(card_number)) \notin 13..19
           \/ Len(SelectSeq(card_number, IsDigit)) \notin 13..19)
    => luhn_result = "False"

\* C8 witness: a string of more than 19 digits whose mod-10 sum is divisible
\* by 10 has been checked and rejected.
C8_LongValidSumRejected ==
    /\ luhn_result = "False"
    /\ ~HasUnparsableDigit(card_number)
    /\ Len(DecimalDigitsOf(card_number)) > 19
    /\ Mod10Sum(DecimalDigitsOf(card_number)) % 10 = 0

FindingsWith(category, t) ==
    {i \in 1..Len(findings) : findings[i].category = category /\ findings[i].text = t}

\* C1: every finding detect_in_text returns, pattern-based or NAME, has
\* confidence >= the threshold of the call, and no match whose computed
\* confidence is below the threshold is among the findings.
C1_FindingsMeetThreshold ==
    detect_state = "returned"
    => /\ \A i \in 1..Len(findings) : findings[i].confidence >= confidence_threshold
       /\ \A k \in 1..Len(categories) :
             categories[k] \in PatternCategories
             => LET matches == FindIter(PATTERNS(categories[k]), text, 0)
                IN  \A j \in 1..Len(matches) :
                        calculate_confidence(categories[k], Group(text, matches[j]))
                            < confidence_threshold
                        => FindingsWith(categories[k], Group(text, matches[j])) = {}

\* C1 witness: of two card numbers in one span, one was reported and the one
\* scoring below the threshold was dropped.
C1_OneKeptOneDropped ==
    /\ detect_state = "returned"
    /\ Len(FindIter(PatternCREDIT_CARD, text, 0)) = 2
    /\ Cardinality({i \in 1..Len(findings) : findings[i].category = "CREDIT_CARD"}) = 1
    /\ confidence_threshold > 70

\* the text with its spaces and dashes removed
WithoutSpacesAndDashes(t) == SelectSeq(t, LAMBDA c : c \notin {" ", "-"})

CardScore(t) == IF luhn_check(WithoutSpacesAndDashes(t)) = "True" THEN 95 ELSE 70

\* C9: for CREDIT_CARD calculate_confidence returns 0.95 exactly when the text
\* with spaces and dashes stripped passes luhn_check and 0.70 otherwise, without
\* raising; a card match is reported, with that confidence, exactly when that
\* confidence reaches the threshold (so a match failing the Luhn check is
\* reported when the threshold is <= 0.70 and dropped when it is > 0.70).
C9_CreditCardConfidence ==
    detect_state = "returned"
    => /\ calculate_confidence("CREDIT_CARD", text) = CardScore(text)
       /\ (\E k \in 1..Len(categories) : categories[k] = "CREDIT_CARD")
          => LET matches == FindIter(PatternCREDIT_CARD, text, 0)
             IN  \A j \in 1..Len(matches) :
                    LET g == Group(text, matches[j])
                    IN  /\ calculate_confidence("CREDIT_CARD", g) = CardScore(g)
                        /\ (FindingsWith("CREDIT_CARD", g) # {})
                              <=> (CardScore(g) >= confidence_threshold)
                        /\ \A i \in FindingsWith("CREDIT_CARD", g) :
                              findings[i].confidence = CardScore(g)

\* C9 witness: a card number failing the Luhn check has been reported with
\* confidence 0.70 at threshold 0.70.
C9_FailedLuhnReported ==
    /\ detect_state = "returned"
    /\ confidence_threshold = 70
    /\ \E i \in 1..Len(findings) :
          findings[i].category = "CREDIT_CARD" /\ findings[i].confidence = 70

\* C10: the result of calculate_confidence lies in [0, 1] and, whatever the
\* text, is 0.95 for SSN, 0.88 for PHONE, 0.85 for DATE_OF_BIRTH, 0.80 for
\* ADDRESS, 0.82 for ZIP_CODE, 0.75 for NAME and 0.80 for a category outside the
\* known set.
C10_ConfidenceTable ==
    score \notin {-3, -2}
    => /\ score >= 0 /\ score <= 100
       /\ score_category = "SSN" => score = 95
       /\ score_category = "PHONE" => score = 88
       /\ score_category = "DATE_OF_BIRTH" => score = 85
       /\ score_category = "ADDRESS" => score = 80
       /\ score_category = "ZIP_CODE" => score = 82
       /\ score_category = "NAME" => score = 75
       /\ score_category \notin (PatternCategories \cup {"NAME"}) => score = 80

\* C10 witness: a category outside the known set has been scored on a text
\* that is not empty.
C10_UnknownCategoryScored ==
    /\ score = 80
    /\ score_category = "PASSPORT"
    /\ score_text # <<>>

\* the items of request.areas that validate_redaction_area accepts
PassingAreas ==
    {i \in 1..Len(Items) : validate_redaction_area(Items[i], PageCount) = "True"}

\* the items of request.areas accepted for page p
PassingAreasOn(p) == {i \in PassingAreas : Get(Items[i], "page", 1).v = p}

AllPages == 1..PageCount

\* C3: a /redact request on a document that opened, with no failure of the PDF
\* library or of storage, succeeds whatever mix of valid and invalid areas it
\* carries: every page holds one annotation per area accepted for it and
\* redactions_applied is the number of areas validate_redaction_area accepts.
C3_MixedAreasSucceed ==
    (endpoint = "redact" /\ pc = "done" /\ doc = "closed" /\ ~fault)
    => /\ response = "success"
       /\ redactions_applied = Cardinality(PassingAreas)
       /\ \A p \in AllPages : annots[p] = Cardinality(PassingAreasOn(p))

\* C4: in a /redact request no page has its redactions applied before every
\* item of the area list has been gone through and every accepted item
\* annotated, no output file exists before apply_redactions has run on every
\* page, and the response is success only when the output has been saved where
\* the storage mode keeps it.
C4_PhaseOrder ==
    endpoint = "redact"
    => /\ applied # {}
          => /\ idx = Len(Items) + request.areas.pad
             /\ \A p \in AllPages : annots[p] = Cardinality(PassingAreasOn(p))
       /\ (temp_output \/ bucket_output) => applied = AllPages
       /\ response = "success"
          => IF STORAGE_TYPE \in {"s3", "r2"} THEN bucket_output ELSE temp_output

\* C4 witness: a request with an accepted area on a document of several pages
\* has been answered with success.
C4_SuccessAfterAllPhases ==
    /\ endpoint = "redact"
    /\ response = "success"
    /\ redactions_applied > 0
    /\ PageCount > 1
    /\ applied = AllPages

\* C5: when a /redact request has applied the redactions on every page and the
\* save or the upload that follows fails, the request is answered with an
\* error, the document is closed and no output file of the request remains,
\* neither in TEMP_PATH nor in the bucket.
C5_FailedSaveLeavesNoOutput ==
    (endpoint = "redact" /\ pc = "done" /\ applied = AllPages /\ PageCount > 0
        /\ raised # "none")
    => /\ response # "success"
       /\ doc = "closed"
       /\ ~temp_output
       /\ ~bucket_output

\* C6: in /redact and /detect-pii the document is never closed more than
\* once, never closed without having been opened, and a request that opened
\* it and has been answered, with success or with an error, has closed it once.
C6_ClosedExactlyOnce ==
    /\ closes <= 1
    /\ doc = "None" => closes = 0
    /\ (pc = "done" /\ doc # "None") => (doc = "closed" /\ closes = 1)

\* C6 witness: a /detect-pii request whose text extraction failed on an open
\* document has been answered with 500 and the document closed once.
C6_ClosedAfterExtractionFailure ==
    /\ endpoint = "detect-pii"
    /\ pc = "done"
    /\ raised = "Exception"
    /\ response = "500"
    /\ closes = 1


\* the domain of an address: what follows its last "@"
DomainOf(t) ==
    LET ats == {i \in 1..Len(t) : t[i] = "@"}
    IN  IF ats = {} THEN <<>>
        ELSE SubSeq(t, (CHOOSE i \in ats : \A j \in ats : j <= i) + 1, Len(t))

\* C11: every EMAIL finding has confidence 0.95 when the domain of its address,
\* the part after "@", is gmail.com, yahoo.com, outlook.com or hotmail.com, and
\* 0.90 when the domain is any other.
C11_EmailConfidenceByDomain ==
    detect_state = "returned"
    => \A i \in 1..Len(findings) :
          findings[i].category = "EMAIL"
          => findings[i].confidence =
                IF LowerText(DomainOf(findings[i].text)) \in FreeMailDomains
                THEN 95 ELSE 90

\* the rational r equals n / d
RatIs(r, n, d) == r.n * d = n * r.d

\* C12: every pattern-based finding comes from a match of its category in a
\* span text that is not empty, and its bbox is
\* [x0 + (x1-x0)*start/len(text), y0, x0 + (x1-x0)*end/len(text), y1] for the
\* offsets start and end of that match; on an empty span text the call
\* returns without a finding.
C12_BboxProportionalToOffsets ==
    detect_state = "returned"
    => /\ text = <<>> => findings = <<>>
       /\ \A i \in 1..Len(findings) :
             findings[i].category \in PatternCategories
             => /\ Len(text) > 0
                /\ LET matches == FindIter(PATTERNS(findings[i].category), text, 0)
                       width == bbox[3] - bbox[1]
                   IN  \E j \in 1..Len(matches) :
                          /\ Group(text, matches[j]) = findings[i].text
                          /\ RatIs(findings[i].bbox[1],
                                   bbox[1] * Len(text) + width * matches[j].start, Len(text))
                          /\ RatIs(findings[i].bbox[2], bbox[2], 1)
                          /\ RatIs(findings[i].bbox[3],
                                   bbox[1] * Len(text) + width * matches[j].end, Len(text))
                          /\ RatIs(findings[i].bbox[4], bbox[4], 1)

\* C12 witness: a finding of a match that starts inside the text of a span
\* whose box does not start at 0, its left edge falling between whole numbers.
C12_FractionalEdge ==
    /\ detect_state = "returned"
    /\ bbox[1] > 0
    /\ \E i \in 1..Len(findings) :
          /\ findings[i].category \in PatternCategories
          /\ findings[i].bbox[1].n % findings[i].bbox[1].d # 0

KnownCategories == PatternCategories \cup {"NAME"}

\* the category list without the names outside the known set
KnownOnly(cats) == SelectSeq(cats, LAMBDA c : c \in KnownCategories)

\* the findings without their id fields
WithoutIds(fs) ==
    [i \in 1..Len(fs) |->
        [category   |-> fs[i].category,
         name       |-> fs[i].name,
         text       |-> fs[i].text,
         confidence |-> fs[i].confidence,
         page       |-> fs[i].page,
         bbox       |-> fs[i].bbox]]

\* C13: detect_in_text returns for every category list; no finding carries a
\* category outside the seven pattern categories and NAME, and when the list
\* holds such names the findings are, up to their ids, those of the same call
\* on the list with these names removed.
C13_UnknownCategoriesIgnored ==
    detect_state = "returned"
    => /\ \A i \in 1..Len(findings) : findings[i].category \in KnownCategories
       /\ KnownOnly(categories) # categories
          => WithoutIds(findings) =
                FindingsOf(text, bbox, page_num, KnownOnly(categories),
                           confidence_threshold)

\* C13 witness: a call whose list names an unknown category before a known one
\* has returned a finding of the known one.
C13_FindingAfterUnknownName ==
    /\ detect_state = "returned"
    /\ \E j, k \in 1..Len(categories) :
          /\ j < k
          /\ categories[j] \notin KnownCategories
          /\ \E i \in 1..Len(findings) : findings[i].category = categories[k]

\* what follows the first occurrence of the indicator in the text
TextAfter(t, indicator) ==
    SubSeq(t, IndexOf(t, indicator, 1) + Len(indicator), Len(t))

NameRequested == \E k \in 1..Len(categories) : categories[k] = "NAME"

\* C14: when NAME is requested, for every indicator that occurs in the span,
\* with the tokens being the first three (or fewer) whitespace-delimited tokens
\* after the indicator, a NAME finding of confidence 0.75 with the text
\* "<indicator> <tokens>" is returned if and only if there are at least two
\* tokens, each of them starts with an uppercase letter and 0.75 reaches the
\* threshold.
C14_NameAfterIndicator ==
    (detect_state = "returned" /\ NameRequested)
    => \A k \in 1..Len(NAME_INDICATORS) :
          Contains(text, NAME_INDICATORS[k])
          => LET tokens == Take(Words(TextAfter(text, NAME_INDICATORS[k])), 3)
             IN  (\E i \in 1..Len(findings) :
                     /\ findings[i].category = "NAME"
                     /\ findings[i].confidence = 75
                     /\ findings[i].text = NAME_INDICATORS[k] \o <<" ">> \o Join(tokens))
                 <=> /\ Len(tokens) >= 2
                     /\ \A w \in 1..Len(tokens) : tokens[w][1] \in Upper
                     /\ 75 >= confidence_threshold

\* t begins with prefix
StartsWith(t, prefix) == Len(prefix) <= Len(t) /\ SubSeq(t, 1, Len(prefix)) = prefix

\* 'Dr. John Smith'
DoctorJohnSmith == SubSeq(TextDoctorSsn, 1, 14)

\* '123-45-6789'
SsnOfDoctor == SubSeq(TextDoctorSsn, 24, 34)

\* C15: the call with categories ["SSN", "NAME"] and threshold 0.7 on the span
\* "Dr. John Smith has SSN 123-45-6789" returns exactly two findings, a NAME
\* finding whose text starts with "Dr. John Smith" and an SSN finding with the
\* text "123-45-6789", both of confidence >= 0.7.
C15_DoctorExample ==
    (detect_state = "returned" /\ text = TextDoctorSsn
        /\ categories = <<"SSN", "NAME">> /\ confidence_threshold = 70)
    => /\ Len(findings) = 2
       /\ \E i \in 1..Len(findings) :
             /\ findings[i].category = "NAME"
             /\ StartsWith(findings[i].text, DoctorJohnSmith)
             /\ findings[i].confidence >= 70
       /\ \E i \in 1..Len(findings) :
             /\ findings[i].category = "SSN"
             /\ findings[i].text = SsnOfDoctor
             /\ findings[i].confidence >= 70

\* C16: the text of every finding, NAME included, occurs in the span text as
\* a contiguous substring.
C16_FindingTextIsSubstring ==
    detect_state = "returned"
    => \A i \in 1..Len(findings) : Contains(text, findings[i].text)

RECURSIVE SumOf(_)
\* the sum of the values of a function
SumOf(f) ==
    IF DOMAIN f = {} THEN 0
    ELSE LET k == CHOOSE k \in DOMAIN f : TRUE
         IN  f[k] + SumOf([j \in DOMAIN f \ {k} |-> f[j]])

\* the positions of the findings satisfying a test
Counted(Test(_)) == Cardinality({i \in 1..Len(stats_findings) : Test(stats_findings[i])})

\* C17: calculate_statistics returns total = |F|, by_category with exactly the
\* categories occurring in F as keys, each mapped to the number of its
\* findings, high = the findings of confidence >= 0.90, medium = those with
\* 0.70 <= confidence < 0.90, low = those below 0.70, and high + medium + low
\* = total = the sum of the by_category counts.
C17_StatisticsCount ==
    stats_state = "returned"
    => LET by_confidence == stats_result.by_confidence
           by_category == stats_result.by_category
       IN  /\ stats_result.total = Len(stats_findings)
           /\ DOMAIN by_category =
                 {stats_findings[i].category : i \in 1..Len(stats_findings)}
           /\ \A c \in DOMAIN by_category :
                 by_category[c] = Counted(LAMBDA f : f.category = c)
           /\ by_confidence.high = Counted(LAMBDA f : f.confidence >= 90)
           /\ by_confidence.medium =
                 Counted(LAMBDA f : 70 <= f.confidence /\ f.confidence < 90)
           /\ by_confidence.low = Counted(LAMBDA f : f.confidence < 70)
           /\ by_confidence.high + by_confidence.medium + by_confidence.low
                 = stats_result.total
           /\ SumOf(by_category) = stats_result.total

\* C17 witness: statistics of findings of two categories with one finding in
\* each band, the medium one at 0.70 exactly.
C17_EveryBandCounted ==
    /\ stats_state = "returned"
    /\ Cardinality(DOMAIN stats_result.by_category) = 2
    /\ stats_result.by_confidence = [high |-> 1, medium |-> 1, low |-> 1]
    /\ \E i \in 1..Len(stats_findings) : stats_findings[i].confidence = 70

\* the items gone through so far that validate_redaction_area accepts
PassedSoFar == {i \in PassingAreas : i <= idx}

\* C18: while a /redact request runs without an exception, every item gone
\* through that validate_redaction_area accepts has been annotated on its page
\* and counted in redactions_applied, those whose rectangle extends beyond the
\* page included: nothing but the validator's refusal keeps an area out.
C18_OverflowingAreaAnnotated ==
    (endpoint = "redact" /\ doc # "None" /\ raised = "none")
    => /\ redactions_applied = Cardinality(PassedSoFar)
       /\ \A p \in AllPages :
             annots[p] = Cardinality({i \in PassedSoFar : Get(Items[i], "page", 1).v = p})

\* C18 witness: a request whose every area passes the validator, one of them
\* reaching beyond its page, has been answered with success and all its areas
\* counted.
C18_OverflowCounted ==
    /\ endpoint = "redact"
    /\ response = "success"
    /\ Items # <<>>
    /\ redactions_applied = Len(Items)
    /\ \E i \in 1..Len(Items) : BeyondPage(Items[i])

\* the request carries an input the handler refuses: a file name or, for
\* /redact, an output name that sanitize_filename rejects, or more than
\* MAX_REDACTIONS areas
InvalidInput ==
    \/ sanitize_filename(request.fileId).err = "ValueError"
    \/ /\ endpoint = "redact"
       /\ \/ sanitize_filename(request.outputName).err = "ValueError"
          \/ Len(Items) + request.areas.pad > MAX_REDACTIONS

\* C19: a request with an invalid input, its names being strings and no
\* storage call failing, is answered with a client error (4xx) without the
\* operation being attempted: no document has been opened, nothing has been
\* saved or uploaded and no temporary file has been created.
C19_InvalidInputLeavesNothing ==
    (pc = "done" /\ InvalidInput /\ ~fault
        /\ (endpoint = "redact" => request.outputName # None))
    => /\ response \in {"400", "404", "413"}
       /\ doc = "None"
       /\ ~temp_input
       /\ ~temp_output
       /\ ~bucket_output

RECURSIVE SpanFindingsFrom(_, _)
\* the findings of the spans of page p from the k-th on, in span order
SpanFindingsFrom(p, k) ==
    IF k > Len(stored.pages[p].spans) THEN <<>>
    ELSE FindingsOf(stored.pages[p].spans[k].text, stored.pages[p].spans[k].bbox, p,
                    request.categories, request.confidenceThreshold)
         \o SpanFindingsFrom(p, k + 1)

RECURSIVE PageFindingsFrom(_)
\* the findings of the pages from p on, in page order
PageFindingsFrom(p) ==
    IF p > PageCount THEN <<>>
    ELSE SpanFindingsFrom(p, 1) \o PageFindingsFrom(p + 1)

\* C21: the findings of a /detect-pii response are the findings of page 1,
\* then of page 2, and so on, within a page those of the first span delivered,
\* then of the second, and so on, each span's findings together; the page
\* numbers are 1-based and never decrease along the sequence.
C21_FindingsInDocumentOrder ==
    (endpoint = "detect-pii" /\ response = "success")
    => /\ WithoutIds(pii_findings) = PageFindingsFrom(1)
       /\ \A i \in 1..Len(pii_findings) : pii_findings[i].page \in 1..PageCount
       /\ \A i, j \in 1..Len(pii_findings) :
             i < j => pii_findings[i].page <= pii_findings[j].page

\* C21 witness: a response with a finding of the first span of page 1 before
\* findings of a later span of page 1, followed by a finding of page 2.
C21_TwoSpansThenNextPage ==
    /\ endpoint = "detect-pii"
    /\ response = "success"
    /\ \E i, j, k \in 1..Len(pii_findings) :
          /\ i < j /\ j < k
          /\ pii_findings[i].page = 1 /\ pii_findings[i].category = "SSN"
          /\ pii_findings[j].page = 1 /\ pii_findings[j].category = "CREDIT_CARD"
          /\ pii_findings[k].page = 2

\* C22: every finding of a /detect-pii response has an id made of its
\* category, its page and 8 hexadecimal characters, and no two findings of the
\* response have the same id.
C22_IdsWellFormedAndDistinct ==
    (endpoint = "detect-pii" /\ response = "success")
    => /\ \A i \in 1..Len(pii_findings) :
             /\ pii_findings[i].id.category = pii_findings[i].category
             /\ pii_findings[i].id.page = pii_findings[i].page
             /\ pii_findings[i].id.hex \in Uuid8
       /\ \A i, j \in 1..Len(pii_findings) :
             i # j => pii_findings[i].id # pii_findings[j].id

\* C23: sanitize_filename on a string raises ValueError or returns the input
\* without its directory components, and that name is not empty, holds no
\* "/" and consists of letters, digits, "-", "_" and "." only.
C23_SanitizedNameIsSafe ==
    sanitized.err \notin {"idle", "pending"}
    => \/ sanitized.err = "ValueError"
       \/ /\ sanitized.err = "none"
          /\ sanitized.name = Basename(filename)
          /\ sanitized.name # <<>>
          /\ \A i \in 1..Len(sanitized.name) :
                sanitized.name[i] \in (Letter \cup AsciiDigit \cup {"-", "_", "."})

\* the NAME findings returned for an indicator: those whose text begins with
\* the indicator and a space
NameFindingsFor(indicator) ==
    {i \in 1..Len(findings) :
        /\ findings[i].category = "NAME"
        /\ StartsWith(findings[i].text, indicator \o <<" ">>)}

\* C24: one call returns at most one NAME finding per indicator, at most six
\* in all, and the name in the finding of an indicator is made of the first
\* two or three tokens that follow the first occurrence of the indicator in
\* the span, however often the indicator occurs.
C24_OneNamePerIndicator ==
    detect_state = "returned"
    => /\ Cardinality({i \in 1..Len(findings) : findings[i].category = "NAME"}) <= 6
       /\ \A k \in 1..Len(NAME_INDICATORS) :
             LET indicator == NAME_INDICATORS[k]
                 following == Words(TextAfter(text, indicator))
             IN  /\ Cardinality(NameFindingsFor(indicator)) <= 1
                 /\ \A i \in NameFindingsFor(indicator) :
                       \E n \in 2..3 :
                          /\ n <= Len(following)
                          /\ findings[i].text
                                = indicator \o <<" ">> \o Join(SubSeq(following, 1, n))

\* C24 witness: a span in which an indicator occurs twice, each time before a
\* capitalised name, has given one NAME finding.
C24_SecondOccurrenceIgnored ==
    /\ detect_state = "returned"
    /\ text = TextTwoMisters
    /\ Cardinality({i \in 1..Len(findings) : findings[i].category = "NAME"}) = 1

\* the request whose document is kept under the output name of request r,
\* where the storage mode keeps outputs
OutputOf(r) ==
    IF STORAGE_TYPE \in {"s3", "r2"} THEN bucket[pair[r].outputName]
    ELSE TEMP_PATH[pair[r].outputName]

\* C25: of two requests served at the same time, each ends as it would alone:
\* it is answered with success and, for /redact, the file kept under its
\* output name holds its own redacted document, also when both use the same
\* output name.
C25_RequestsDoNotInterfere ==
    \A r \in DOMAIN pair :
        pair[r].pc = "done"
        => /\ pair[r].response = "success"
           /\ pair[r].endpoint = "redact" => OutputOf(r) = r


\* C26: validate_redaction_area never raises: whatever the five fields hold
\* (a number, null, a string that is no number, nothing at all) it returns a
\* boolean, and it returns False whenever a field that is present is null or
\* a string that is no number, so that a malformed area never fails a request.
C26_ValidatorNeverRaises ==
    valid \notin {"idle", "pending"}
    => /\ valid \in {"True", "False"}
       /\ (\E k \in {"page", "x", "y", "width", "height"} :
               area[k].t \in {"null", "str"}) => valid = "False"


\* C27: every area that validate_redaction_area accepts can be annotated:
\* when the /redact loop reaches the annotation step for an area, the area
\* holds every field the step reads (x, y, width, height) and its page is an
\* integer that addresses a page of the document.
C27_AcceptedAreaCanBeAnnotated ==
    (endpoint = "redact" /\ pc = "annotate")
    => LET item == Items[idx + 1]
       IN  /\ \A k \in {"x", "y", "width", "height"} : item[k].t # "absent"
           /\ Get(item, "page", 1).t = "int"
           /\ Get(item, "page", 1).v \in 1..PageCount


RECURSIVE PagesOf(_)
\* the pages of the files named in a list of chunk numbers, file after file
PagesOf(files) ==
    IF files = <<>> THEN <<>> ELSE chunk_files[Head(files)] \o PagesOf(Tail(files))

\* C28: the files a successful /split/size request returns hold, together,
\* every page of a document of one page or more exactly once and in the
\* original order, and each of them holds at least one page.
C28_SizeChunksHoldEveryPage ==
    (endpoint = "split/size" /\ pc = "done" /\ response = "success" /\ PageCount >= 1)
    => /\ PagesOf(output_files) = PageRange(0, PageCount - 1)
       /\ \A k \in 1..Len(output_files) : chunk_files[output_files[k]] # <<>>

MaxPattern == 12

\* the decimal numeral of n, for n below 100
Numeral(n) ==
    IF n < 10 THEN <<DigitSeq[n + 1]>> ELSE <<DigitSeq[(n \div 10) + 1], DigitSeq[(n % 10) + 1]>>

\* the positive integer a pattern writes (blanks around it and a plus sign
\* before it allowed), 0 when it writes none
Denoted(s) ==
    LET t == Strip(s)
        u == IF t # <<>> /\ Head(t) = "+" THEN Tail(t) ELSE t
    IN  IF \E n \in 1..MaxPattern : Numeral(n) = u
        THEN CHOOSE n \in 1..MaxPattern : Numeral(n) = u
        ELSE 0

\* C29: for a document of P pages and a pattern N >= 1, a successful
\* /split/pattern request returns, when N < P, ceil(P/N) files of which file k
\* holds exactly the pages (k-1)*N+1 to min(k*N, P) and, when N >= P, one file
\* holding all P pages; a pattern that is no positive integer ends in a client
\* error with the document never opened.
C29_PatternChunksPartition ==
    (endpoint = "split/pattern" /\ pc = "done")
    => LET N == Denoted(request.splitByPattern)
           P == PageCount
           count == (P + N - 1) \div N
       IN  /\ (response = "success" /\ N >= 1 /\ N < P)
              => /\ Len(output_files) = count
                 /\ \A k \in 1..count :
                       chunk_files[output_files[k]] =
                           PageRange((k - 1) * N, (IF k * N < P THEN k * N ELSE P) - 1)
           /\ (response = "success" /\ N >= P)
              => /\ Len(output_files) = 1
                 /\ chunk_files[output_files[1]] = PageRange(0, P - 1)
           /\ (N = 0 /\ ~fault) => (response \in {"400", "404", "413"} /\ doc = "None")

\* C29 witness: a document of three pages split by the pattern "2" has come
\* back as two files, pages 1-2 and page 3.
C29_ThreePagesByTwo ==
    /\ endpoint = "split/pattern" /\ pc = "done" /\ response = "success"
    /\ PageCount = 3 /\ request.splitByPattern = <<"2">>
    /\ Len(output_files) = 2
    /\ chunk_files[output_files[1]] = <<0, 1>>
    /\ chunk_files[output_files[2]] = <<2>>

\* C30: when a split request has ended, with success or with an error, the
\* source document and every chunk document the request created are closed.
C30_EveryHandleClosed ==
    (endpoint \in {"split/pattern", "split/size"} /\ pc = "done")
    => (doc # "open" /\ open_chunks = 0)

=============================================================================
